---------------------------- MODULE Spec2Model ----------------------------
(***************************************************************************)
(* Model of the quality-refinement engine of astro-rabbit-live:            *)
(*   validation_agent/claude_validator.py  (scorer, fixer, refinement      *)
(*                                          loop, Anthropic wrapper)       *)
(*   validation_agent/validator.py         (ValidationAgent wrapper)       *)
(*   validation_agent/rlhf_system.py       (local fallback scorer)         *)
(*   validation_agent/json_parser.py       (critic response parser)        *)
(*                                                                         *)
(* Scores are kept in tenths (7.0 is 70).  A text is a record of the       *)
(* measures the code reads from it: its length in characters, the number   *)
(* of leading/trailing whitespace characters str.strip() removes, its      *)
(* number of words, the number of characters above code point 127,        *)
(* whether it contains the star heading marker, whether it contains a      *)
(* newline, and a variant tag that tells apart texts with equal measures.  *)
(***************************************************************************)
EXTENDS Integers, Sequences, FiniteSets, TLC

VARIABLES
    entry,           \* which caller-facing coroutine was called
    api_key,         \* ClaudeValidatorAgent.api_key is set
    text,            \* argument text
    target_score,    \* argument target_score (tenths)
    max_iterations,  \* argument max_iterations
    pc,              \* suspension point the coroutine is at
    current_text,    \* iterative_refinement: current_text
    iteration,       \* iterative_refinement: iteration
    current_score,   \* iterative_refinement: current_score of the last pass
    report,          \* last report returned by a scorer
    result,          \* value returned to the caller: <<text, score>> or <<text>>
    critic_calls,    \* validate_and_score calls made by iterative_refinement
    fixer_calls,     \* fix_text_with_claude calls made by iterative_refinement
    top_score,      \* highest score any pass of the run has given
    top_texts,      \* the texts that received top_score
    improved_text,   \* iterative_refinement: improved_text of the last fix
    fix_failed,      \* the last fixer call failed (no key, exception, non-200)
    use_claude,      \* ValidationAgent.use_claude
    analysis_type,   \* argument analysis_type
    best_text,       \* iterative_improvement: best_text
    best_score,      \* iterative_improvement: best_score
    history_len,     \* iterative_improvement: len(iteration_history)
    scored_text,     \* the text the last scorer call was given
    scorer_path,     \* how the last scorer call ended: ok, failed or local
    last_event,      \* what the last step of the coroutine did
    content,         \* parse_validation_response: argument content
    candidate,       \* parse_validation_response: candidate
    parse_path,      \* which attempt gave data: first, repaired or default
    parsed,          \* the report parse_validation_response returned
    parse_pc,        \* where the call of parse_validation_response is
    patch_text,      \* apply_validator_patches: the text given, then returned
    patch_report,    \* apply_validator_patches: argument report
    patch_prev,      \* the texts the earlier calls were given
    patch_pc,        \* where the calls of apply_validator_patches are
    prev_score,      \* determine_editing_mode: argument prev_score (tenths)
    similarity,      \* determine_editing_mode: argument similarity (hundredths)
    editing_mode,    \* what determine_editing_mode returned
    runs,            \* two calls of iterative_refinement on one agent
    frames           \* the local variables of those calls

vars == <<entry, api_key, text, target_score, max_iterations, pc, current_text,
          iteration, current_score, report, result, critic_calls, fixer_calls,
          top_score, top_texts, improved_text, fix_failed, use_claude,
          analysis_type, best_text, best_score, history_len, scored_text,
          scorer_path, last_event, content, candidate, parse_path, parsed,
          parse_pc, patch_text, patch_report, patch_prev, patch_pc,
          prev_score, similarity, editing_mode, runs, frames>>

\* the arguments of a call and the configuration of the agents
args == <<entry, api_key, use_claude, text, target_score, max_iterations,
          analysis_type>>

\* the locals of iterative_improvement
rlhf_locals == <<best_text, best_score, history_len>>

\* the locals of iterative_refinement
loop_locals == <<current_text, iteration, current_score, improved_text>>

\* what is observed of the calls a run makes
calls == <<critic_calls, fixer_calls, fix_failed>>
tops == <<top_score, top_texts>>
scoring == <<report, scored_text, scorer_path>>

\* a call of parse_validation_response
parsing == <<content, candidate, parse_path, parsed, parse_pc>>

\* the calls of apply_validator_patches
patching == <<patch_text, patch_report, patch_prev, patch_pc>>

\* variables of the calls of determine_editing_mode
editing == <<prev_score, similarity, editing_mode>>

\* variables of the two concurrent calls of iterative_refinement
pair == <<runs, frames>>


---------------------------------------------------------------------------
(* Bounds of the model *)

MaxIter == 2
MaxApplications == 2

(* Program constants *)

DefaultTarget == 100
WrapperMaxIterations == 7
FallbackScore == 50
MinScore == 70
MinFixLen == 100
ShrinkNum == 7
ShrinkDen == 10
MinWords == 1500

None == [none |-> TRUE]

---------------------------------------------------------------------------
(* Texts *)

MkText(l, p, w, h, s, n, v) ==
    [len |-> l, pad |-> p, words |-> w, high |-> h, star |-> s, nl |-> n,
     v |-> v]

TextLens == {0, 104, 105, 150, 1400}
TextPads == {0, 4}
FixerLens == {0, 100, 104, 105, 150}
Variants == {1, 2}

\* texts handed to the engine by its callers
InputTexts ==
    {MkText(m[1], m[2], (m[1] - m[2]) \div 7, 0, FALSE, FALSE, 1) :
        m \in {n \in TextLens \X TextPads : n[2] <= n[1]}}

\* str.strip()
Strip(t) == [t EXCEPT !.len = t.len - t.pad, !.pad = 0]

\* replies of the fixer service, already stripped by fix_text_with_claude
FixerTexts ==
    {MkText(l, 0, l \div 7, 0, FALSE, FALSE, v) : l \in FixerLens, v \in Variants}

TextLen(t) == t.len

\* truth value of a str: non-empty
Truthy(t) == t.len > 0

---------------------------------------------------------------------------
(* External services *)

CriticScores == {-10, 50, 85, 100, 120}
Targets == {50, 85, DefaultTarget}

\* body of a critic reply: a number written with a dot, with a comma, or prose
ReplyBodies ==
    {[fmt |-> f, tenths |-> s] : f \in {"dot", "comma"}, s \in CriticScores}
        \cup {[fmt |-> "prose", tenths |-> 0]}

CriticOutcomes ==
    {[kind |-> "exception", body |-> None], [kind |-> "non200", body |-> None]}
        \cup {[kind |-> "reply", body |-> b] : b \in ReplyBodies}

FixerOutcomes ==
    {[kind |-> "exception", body |-> None], [kind |-> "non200", body |-> None]}
        \cup {[kind |-> "reply", body |-> t] : t \in FixerTexts}

\* content.replace(',', '.')
ReplaceComma(b) == IF b.fmt = "comma" THEN [b EXCEPT !.fmt = "dot"] ELSE b

\* float(score_text): the value, or ok = FALSE for ValueError
Float(b) ==
    IF b.fmt = "dot" THEN [ok |-> TRUE, val |-> b.tenths]
    ELSE [ok |-> FALSE, val |-> 0]

DefaultReportPassing(issue) ==
    [score |-> MinScore, is_valid |-> TRUE, issues |-> <<issue>>,
     suggestions |-> <<>>]

\* the report returned when the critic call fails: lines 35-41 and 134-140
DefaultReport(issue) ==
    [score |-> FallbackScore, is_valid |-> FALSE, issues |-> <<issue>>,
     suggestions |-> <<>>]

\* ClaudeValidatorAgent.validate_and_score
validate_and_score(key, t, outcome) ==
    IF ~key THEN DefaultReport("no_api_key")
    ELSE IF outcome.kind = "reply" /\ Float(ReplaceComma(outcome.body)).ok
         THEN LET score == Float(ReplaceComma(outcome.body)).val
              IN [score |-> score, is_valid |-> score >= MinScore,
                  issues |-> <<>>, suggestions |-> <<>>]
         ELSE DefaultReport("api_error")

fix_text_empty_on_failure(key, t, outcome) ==
    IF key /\ outcome.kind = "reply" THEN outcome.body
    ELSE MkText(0, 0, 0, 0, FALSE, FALSE, 1)

\* ClaudeValidatorAgent.fix_text_with_claude
fix_text_with_claude(key, t, outcome) ==
    IF ~key THEN t
    ELSE IF outcome.kind = "reply" THEN outcome.body
    ELSE t

---------------------------------------------------------------------------
(* iterative_refinement *)

Entries == {"refine", "anthropic", "agent", "rlhf"}
InLoop == {"score", "fix", "final"}

\* the critic call failed: no API key, a transport exception, a status other
\* than 200, or a reply that is not a number
CriticFailed(key, outcome) ==
    \/ ~key
    \/ outcome.kind \in {"exception", "non200"}
    \/ outcome.kind = "reply" /\ outcome.body.fmt = "prose"

\* a call of validate_and_score on t ends with outcome
Scored(t, outcome) ==
    /\ report' = validate_and_score(api_key, t, outcome)
    /\ scored_text' = t
    /\ scorer_path' = IF CriticFailed(api_key, outcome) THEN "failed" ELSE "ok"

\* the score a pass gave is recorded against the text it scored
\* (observed for direct calls of iterative_refinement)
Seen(t, s) ==
    IF entry = "refine"
    THEN /\ top_score' = IF s > top_score THEN s ELSE top_score
         /\ top_texts' = IF s > top_score THEN {t}
                          ELSE IF s = top_score THEN top_texts \cup {t}
                          ELSE top_texts
    ELSE UNCHANGED tops

LoopHeadNoIncrement(i) ==
    IF i < max_iterations
    THEN iteration' = i /\ pc' = "score"
    ELSE iteration' = i /\ pc' = "final"

\* while iteration < max_iterations: iteration += 1 ... else the final pass
LoopHead(i) ==
    IF i < max_iterations
    THEN iteration' = i + 1 /\ pc' = "score"
    ELSE iteration' = i /\ pc' = "final"

\* the first segment of the coroutine, up to its first await
Begin ==
    /\ pc = "start"
    /\ entry \in {"refine", "anthropic", "agent"}
    /\ entry = "agent" => use_claude
    /\ current_text' = text
    /\ LoopHead(0)
    /\ last_event' = "begin"
    /\ UNCHANGED <<args, parsing, patching, editing, pair, rlhf_locals,
                   current_score, improved_text, result, calls, tops,
                   scoring>>

ConvergedStrict(s) == s > target_score

\* if current_score >= target_score: return current_text, current_score
Converged(s) == s >= target_score

\* the scoring pass of the loop returns: lines 236-264
CriticReply(outcome) ==
    /\ pc = "score"
    /\ Scored(current_text, outcome)
    /\ current_score' = report'.score
    /\ critic_calls' = critic_calls + 1
    /\ Seen(current_text, report'.score)
    /\ IF Converged(report'.score)
       THEN /\ result' = <<current_text, report'.score>>
            /\ pc' = "ret"
            /\ last_event' = "converged"
       ELSE /\ result' = result
            /\ pc' = "fix"
            /\ last_event' = "scored"
    /\ UNCHANGED <<args, parsing, patching, editing, pair, rlhf_locals,
                   current_text, iteration, improved_text, fixer_calls,
                   fix_failed>>

\* improved_text and len(improved_text.strip()) > 100
Usable(improved) == Truthy(improved) /\ TextLen(Strip(improved)) > MinFixLen

TooShortHalf(improved, current) ==
    2 * TextLen(improved) < TextLen(current)

\* len(improved_text) < len(current_text) * 0.7
TooShort(improved, current) ==
    ShrinkDen * TextLen(improved) < ShrinkNum * TextLen(current)

\* a loop that calls the fixer again, within the same iteration, when its
\* answer cannot be used
AfterFixRetry(improved) ==
    IF Usable(improved)
    THEN IF TooShort(improved, current_text)
         THEN /\ current_text' = current_text
              /\ iteration' = iteration
              /\ pc' = "final"
              /\ last_event' = "rejected"
         ELSE /\ current_text' = improved
              /\ LoopHead(iteration)
              /\ last_event' = "accepted"
    ELSE /\ current_text' = current_text
         /\ iteration' = iteration
         /\ pc' = "fix"
         /\ last_event' = "gave_up"

\* what the loop does with the fixer's answer: lines 266-276
AfterFix(improved) ==
    IF Usable(improved)
    THEN IF TooShort(improved, current_text)
         THEN /\ current_text' = current_text
              /\ iteration' = iteration
              /\ pc' = "final"
              /\ last_event' = "rejected"
         ELSE /\ current_text' = improved
              /\ LoopHead(iteration)
              /\ last_event' = "accepted"
    ELSE /\ current_text' = current_text
         /\ iteration' = iteration
         /\ pc' = "final"
         /\ last_event' = "gave_up"

\* the fixer call returns: lines 264-276, then the loop test of line 229
FixerReply(outcome) ==
    /\ pc = "fix"
    /\ fixer_calls' = fixer_calls + 1
    /\ fix_failed' = (~api_key \/ outcome.kind # "reply")
    /\ improved_text' = fix_text_with_claude(api_key, current_text, outcome)
    /\ AfterFix(improved_text')
    /\ UNCHANGED <<args, parsing, patching, editing, pair, rlhf_locals,
                   current_score, result, critic_calls, tops, scoring>>

\* a final pass whose score is dropped: the run returns the score of its
\* last pass of the loop
FinalReplyStale(outcome) ==
    /\ pc = "final"
    /\ Scored(current_text, outcome)
    /\ critic_calls' = critic_calls + 1
    /\ Seen(current_text, report'.score)
    /\ result' = <<current_text, current_score>>
    /\ pc' = "ret"
    /\ last_event' = "final"
    /\ UNCHANGED <<args, parsing, patching, editing, pair, rlhf_locals,
                   loop_locals, fixer_calls, fix_failed>>

\* the final pass returns: lines 280-294
FinalReply(outcome) ==
    /\ pc = "final"
    /\ Scored(current_text, outcome)
    /\ critic_calls' = critic_calls + 1
    /\ Seen(current_text, report'.score)
    /\ result' = <<current_text, report'.score>>
    /\ pc' = "ret"
    /\ last_event' = "final"
    /\ UNCHANGED <<args, parsing, patching, editing, pair, rlhf_locals,
                   loop_locals, fixer_calls, fix_failed>>

---------------------------------------------------------------------------
(* The callers of iterative_refinement *)

\* AnthropicValidationAgent.validate_and_fix returns improved_text (line 323);
\* ValidationAgent.validate_and_fix goes on to its own scoring call (line 397)
AfterRefinement(improved) ==
    /\ result' = <<improved>>
    /\ pc' = IF entry = "anthropic" THEN "done" ELSE "agent_score"

AnthropicReraise == pc' = "raised" /\ result' = result

\* except Exception: return text (claude_validator.py lines 325-327)
AnthropicExcept == AfterRefinement(text)

AnthropicReturn ==
    /\ pc = "ret"
    /\ entry \in {"anthropic", "agent"}
    /\ AfterRefinement(result[1])
    /\ UNCHANGED <<args, parsing, patching, editing, pair, rlhf_locals,
                   loop_locals, calls, tops, scoring, last_event>>

\* ValidationAgent._basic_cleanup
Placeholder == MkText(17, 0, 2, 16, FALSE, FALSE, 0)
_basic_cleanup(t) == IF ~Truthy(t) THEN Placeholder ELSE Strip(t)

\* except Exception: return self._basic_cleanup(text) (validator.py 408-412)
AgentExcept ==
    /\ result' = <<_basic_cleanup(text)>>
    /\ pc' = "done"

\* ValidationAgent.validate_and_fix: the scoring call of line 397 returns
AgentFinalReply(outcome) ==
    /\ pc = "agent_score"
    /\ Scored(result[1], outcome)
    /\ pc' = "done"
    /\ UNCHANGED <<args, parsing, patching, editing, pair, rlhf_locals,
                   loop_locals, result, calls, tops, last_event>>

\* an exception leaves an awaited call of iterative_refinement
EscapeRefinement ==
    /\ pc \in InLoop
    /\ IF entry = "refine"
       THEN pc' = "raised" /\ result' = result
       ELSE AnthropicExcept
    /\ last_event' = "escaped"
    /\ UNCHANGED <<args, parsing, patching, editing, pair, rlhf_locals,
                   loop_locals, calls, tops, scoring>>

\* an exception leaves a call awaited by ValidationAgent.validate_and_fix
EscapeAgent ==
    /\ pc \in {"agent_score", "local"}
    /\ AgentExcept
    /\ last_event' = "escaped_agent"
    /\ UNCHANGED <<args, parsing, patching, editing, pair, rlhf_locals,
                   loop_locals, calls, tops, scoring>>

\* ValidationAgent._fallback_validation, entered when use_claude is false
LocalMaxIterations == 2

\* results of PromptValidator.fix_text: stripped, with the mandatory headings
LocalFixTexts ==
    {MkText(l, 0, l \div 7, 12, TRUE, TRUE, 1) : l \in {400, 1400}}

BeginLocal ==
    /\ pc = "start"
    /\ entry = "agent"
    /\ ~use_claude
    /\ current_text' = text
    /\ iteration' = 0
    /\ pc' = "local"
    /\ last_event' = "begin"
    /\ UNCHANGED <<args, parsing, patching, editing, pair, rlhf_locals,
                   current_score, improved_text, result, calls, tops,
                   scoring>>

\* one iteration of _fallback_validation: validate_text, then fix_text
LocalPass(is_valid_local, fixed) ==
    /\ pc = "local"
    /\ iteration < LocalMaxIterations
    /\ iteration' = iteration + 1
    /\ IF is_valid_local
       THEN /\ result' = <<current_text>>
            /\ current_text' = current_text
            /\ pc' = "done"
       ELSE /\ current_text' = fixed
            /\ IF iteration + 1 < LocalMaxIterations
               THEN pc' = "local" /\ result' = result
               ELSE pc' = "done" /\ result' = <<fixed>>
    /\ last_event' = "local"
    /\ UNCHANGED <<args, parsing, patching, editing, pair, rlhf_locals,
                   current_score, improved_text, calls, tops, scoring>>

---------------------------------------------------------------------------
(* RLHFFeedbackSystem *)

RlhfMaxIterations == 5
AnalysisTypes == {"zodiac", "forecast", "compatibility", "profile"}

\* self.target_scores.get(analysis_type, 8.5)
TargetFor(type) ==
    CASE type = "zodiac" -> 85
      [] type = "forecast" -> 90
      [] type = "compatibility" -> 80
      [] OTHER -> 85

Range(q) == {q[i] : i \in DOMAIN q}
Max(a, b) == IF a >= b THEN a ELSE b

\* texts given to and produced by the generation function
RlhfLens == {100, 1400}
RlhfHighs == {2, 10}
RlhfTexts ==
    {MkText(l, 0, l \div 7, h, st, TRUE, 1) :
        l \in RlhfLens, h \in RlhfHighs, st \in BOOLEAN}

GenerationOutcomes ==
    {[kind |-> "exception", body |-> None]}
        \cup {[kind |-> "reply", body |-> t] : t \in RlhfTexts}

\* RLHFFeedbackSystem._fallback_scoring
_fallback_scoring(t) ==
    LET short == TextLen(t) < 500
        few == t.high < 10
        bare == ~t.star
        score == 50 - (IF short THEN 20 ELSE 0) - (IF few THEN 10 ELSE 0)
                    - (IF bare THEN 15 ELSE 0)
        issues == (IF short THEN <<"too_short">> ELSE <<>>)
                    \o (IF few THEN <<"few_emoji">> ELSE <<>>)
                    \o (IF bare THEN <<"no_headings">> ELSE <<>>)
        suggestions == (IF short THEN <<"grow_to_1000_words">> ELSE <<>>)
                    \o (IF few THEN <<"add_emoji">> ELSE <<>>)
                    \o (IF bare THEN <<"add_headings">> ELSE <<>>)
    IN [score |-> Max(10, score), is_valid |-> score >= 70,
        issues |-> issues, suggestions |-> suggestions]

\* RLHFFeedbackSystem._fallback_fix: a 154-character block with a star
\* heading is appended for a "short" issue; for an "emoji" issue "🌟 " is put
\* in front and the first newline becomes "\n💎 "
_fallback_fix(t, issues) ==
    LET a == IF "too_short" \in Range(issues)
             THEN [t EXCEPT !.len = @ + 154, !.words = @ + 16,
                            !.high = @ + 134, !.star = TRUE, !.nl = TRUE]
             ELSE t
        k == IF a.nl THEN 1 ELSE 0
    IN IF "few_emoji" \in Range(issues)
       THEN [a EXCEPT !.len = @ + 2 + 2 * k, !.words = @ + 1 + k,
                      !.high = @ + 1 + k, !.star = TRUE]
       ELSE a

\* iterative_improvement up to its first scoring call: lines 49-67
BeginImprove ==
    /\ pc = "start"
    /\ entry = "rlhf"
    /\ current_text' = text
    /\ best_text' = text
    /\ best_score' = 0
    /\ history_len' = 0
    /\ iteration' = 1
    /\ pc' = "rlhf_score"
    /\ last_event' = "begin"
    /\ UNCHANGED <<args, parsing, patching, editing, pair, current_score,
                   improved_text, result, calls, tops, scoring>>

\* a pass that keeps the latest result as the best one, whatever its score
ImproveScoredLatest(r) ==
    /\ current_score' = r.score
    /\ history_len' = history_len + 1
    /\ best_score' = r.score
    /\ best_text' = current_text
    /\ IF r.score >= target_score
       THEN /\ result' = <<current_text, r.score, history_len'>>
            /\ pc' = "rlhf_ret"
       ELSE IF iteration < RlhfMaxIterations
       THEN /\ result' = result
            /\ pc' = "rlhf_gen"
       ELSE /\ result' = <<best_text', best_score', history_len'>>
            /\ pc' = "rlhf_ret"
    /\ last_event' = "rlhf_scored"
    /\ UNCHANGED <<args, parsing, patching, editing, pair, current_text,
                   iteration, improved_text, calls, tops>>

\* lines 69-97: the report of a pass is recorded, the best result updated,
\* and the run returns, regenerates or ends with the best result
ImproveScored(r) ==
    /\ current_score' = r.score
    /\ history_len' = history_len + 1
    /\ best_score' = IF r.score > best_score THEN r.score ELSE best_score
    /\ best_text' = IF r.score > best_score THEN current_text ELSE best_text
    /\ IF r.score >= target_score
       THEN /\ result' = <<current_text, r.score, history_len'>>
            /\ pc' = "rlhf_ret"
       ELSE IF iteration < RlhfMaxIterations
       THEN /\ result' = result
            /\ pc' = "rlhf_gen"
       ELSE /\ result' = <<best_text', best_score', history_len'>>
            /\ pc' = "rlhf_ret"
    /\ last_event' = "rlhf_scored"
    /\ UNCHANGED <<args, parsing, patching, editing, pair, current_text,
                   iteration, improved_text, calls, tops>>

\* the scoring call of line 62 returns
ImproveCriticReply(outcome) ==
    /\ pc = "rlhf_score"
    /\ use_claude
    /\ Scored(current_text, outcome)
    /\ ImproveScored(report')

\* the local scoring of line 67
ImproveLocalScore ==
    /\ pc = "rlhf_score"
    /\ ~use_claude
    /\ report' = _fallback_scoring(current_text)
    /\ scored_text' = current_text
    /\ scorer_path' = "local"
    /\ ImproveScored(report')

\* the generation function returns or raises: lines 111-132, then line 57
Regenerated(outcome) ==
    /\ pc = "rlhf_gen"
    /\ IF outcome.kind = "reply"
       THEN /\ current_text' = outcome.body
            /\ iteration' = iteration + 1
            /\ pc' = "rlhf_score"
            /\ last_event' = "regenerated"
       ELSE IF use_claude
       THEN \* fix_text_with_claude(current_text, issues, target_score):
            \* one argument more than the method takes, a TypeError
            /\ current_text' = current_text
            /\ iteration' = iteration
            /\ pc' = "raised"
            /\ last_event' = "type_error"
       ELSE /\ current_text' = _fallback_fix(current_text, report.issues)
            /\ iteration' = iteration + 1
            /\ pc' = "rlhf_score"
            /\ last_event' = "fallback_fix"
    /\ UNCHANGED <<args, parsing, patching, editing, pair, rlhf_locals,
                   current_score, improved_text, result, calls, tops,
                   scoring>>

---------------------------------------------------------------------------
(* json_parser.py.  A reply is a sequence of symbols.  A symbol is one      *)
(* character (a brace, a bracket, a colon, a comma, a double quote, a dot,  *)
(* a minus sign, a digit, a blank, a tab, a carriage return, a newline) or  *)
(* one word written as a unit: a field name, a JSON literal, a word of      *)
(* prose.  Fence stands for the markdown fence of three backquotes.         *)

Fence == "~~~"
Whitespace == {" ", "\n", "\t", "\r"}
Digits == <<"0", "1", "2", "3", "4", "5", "6", "7", "8", "9">>

\* The locals of the code hold values: Only({e : x \in {v}}) is e with x
\* bound to the value of v, computed once.
Only(S) == CHOOSE r \in S : TRUE

IsDigit(c) == \E d \in DOMAIN Digits : Digits[d] = c
DigitVal(c) == (CHOOSE d \in DOMAIN Digits : Digits[d] = c) - 1

\* str.strip(chars)
RECURSIVE lstrip(_, _)
lstrip(s, cs) ==
    IF s # <<>> /\ Head(s) \in cs THEN lstrip(Tail(s), cs) ELSE s

RECURSIVE rstrip(_, _)
rstrip(s, cs) ==
    IF s # <<>> /\ s[Len(s)] \in cs
    THEN rstrip(SubSeq(s, 1, Len(s) - 1), cs)
    ELSE s

strip(s, cs) == rstrip(lstrip(s, cs), cs)

\* str.replace(old, new) for one-character old and new
replace(s, old, new) ==
    [i \in DOMAIN s |-> IF s[i] = old THEN new ELSE s[i]]

\* str.find(c, from): the first index at or after from that holds c, or 0
find(s, c, from) ==
    LET hits == {i \in from..Len(s) : s[i] = c}
    IN IF hits = {} THEN 0 ELSE CHOOSE i \in hits : \A j \in hits : i <= j

\* str.rfind(c): the last index that holds c, or 0
rfind(s, c) ==
    LET hits == {i \in DOMAIN s : s[i] = c}
    IN IF hits = {} THEN 0 ELSE CHOOSE i \in hits : \A j \in hits : j <= i

\* the loop of _extract_json_block: the index of the "}" that brings depth
\* back to 0, or 0 when the loop ends without returning
RECURSIVE MatchingBrace(_, _, _)
MatchingBrace(s, i, depth) ==
    IF i > Len(s) THEN 0
    ELSE IF s[i] = "{" THEN MatchingBrace(s, i + 1, depth + 1)
    ELSE IF s[i] = "}"
         THEN IF depth - 1 = 0 THEN i ELSE MatchingBrace(s, i + 1, depth - 1)
    ELSE MatchingBrace(s, i + 1, depth)

\* re.sub(r"^```(json)?|```$", "", text, flags=re.MULTILINE)
RECURSIVE RemoveFences(_, _)
RemoveFences(s, i) ==
    IF i > Len(s) THEN <<>>
    ELSE IF s[i] = Fence /\ (i = 1 \/ s[i - 1] = "\n")
         THEN IF i < Len(s) /\ s[i + 1] = "json"
              THEN RemoveFences(s, i + 2)
              ELSE RemoveFences(s, i + 1)
    ELSE IF s[i] = Fence /\ (i = Len(s) \/ s[i + 1] = "\n")
         THEN RemoveFences(s, i + 1)
    ELSE <<s[i]>> \o RemoveFences(s, i + 1)

\* re.search(r"\{[\s\S]*\}", code): from the first "{" to the last "}"
GreedyBraces(code) ==
    LET a == find(code, "{", 1)
        b == rfind(code, "}")
    IN IF a > 0 /\ b > a THEN SubSeq(code, a, b) ELSE <<>>

_extract_json_block(raw) ==
    Only({
      Only({
        Only({
          IF close > 0 THEN SubSeq(stripped, start, close)
          ELSE Only({
                 Only({ IF m # <<>> THEN m ELSE stripped
                        : m \in {GreedyBraces(code)} })
                 : code \in {strip(RemoveFences(stripped, 1), Whitespace)} })
          : close \in {IF start = 0 THEN 0
                       ELSE MatchingBrace(stripped, start, 0)} })
        : start \in {find(stripped, "{", 1)} })
      : stripped \in {strip(raw, Whitespace)} })

\* JSON values as json.loads builds them: a number is n / 10^k, kept with
\* no trailing zero after the point; a dict maps keys (symbol sequences)
\* to values and keeps the last value of a repeated key
RECURSIVE Num(_, _)
Num(n, k) ==
    IF k > 0 /\ n % 10 = 0
    THEN Num(n \div 10, k - 1)
    ELSE [t |-> "num", n |-> n, k |-> k]

Str(chars) == [t |-> "str", chars |-> chars]
Arr(items) == [t |-> "arr", items |-> items]
Obj(fields) == [t |-> "obj", fields |-> fields]
Bool(b) == [t |-> "bool", b |-> b]
Null == [t |-> "null"]

Key(word) == <<word>>
Put(fields, k, v) ==
    [x \in (DOMAIN fields) \cup {k} |-> IF x = k THEN v ELSE fields[x]]

Ok(v, p) == [ok |-> TRUE, val |-> v, pos |-> p]
Fail == [ok |-> FALSE, val |-> Null, pos |-> 0]

\* the first index at or after i that holds no white space
RECURSIVE SkipWs(_, _)
SkipWs(s, i) ==
    IF i <= Len(s) /\ s[i] \in Whitespace THEN SkipWs(s, i + 1) ELSE i

\* the first index at or after i that holds no digit
RECURSIVE DigitsEnd(_, _)
DigitsEnd(s, i) ==
    IF i <= Len(s) /\ IsDigit(s[i]) THEN DigitsEnd(s, i + 1) ELSE i

RECURSIVE Natural(_)
Natural(ds) ==
    IF ds = <<>> THEN 0
    ELSE 10 * Natural(SubSeq(ds, 1, Len(ds) - 1)) + DigitVal(ds[Len(ds)])

\* json.decoder NUMBER_RE: -?(0|[1-9]\d*)(\.\d+)?
ParseNumber(s, i) ==
    LET neg == s[i] = "-"
        a == IF neg THEN i + 1 ELSE i
        b == IF a <= Len(s) /\ s[a] = "0" THEN a + 1 ELSE DigitsEnd(s, a)
        hasFrac == b < Len(s) /\ s[b] = "." /\ IsDigit(s[b + 1])
        c == IF hasFrac THEN DigitsEnd(s, b + 1) ELSE b
        frac == IF hasFrac THEN SubSeq(s, b + 1, c - 1) ELSE <<>>
        mant == Natural(SubSeq(s, a, b - 1) \o frac)
    IN IF b = a THEN Fail
       ELSE Ok(Num(IF neg THEN 0 - mant ELSE mant, Len(frac)), c)

\* json.decoder.scanstring with strict=True: up to the next double quote,
\* a control character inside the string is an error
ParseString(s, i) ==
    LET j == find(s, "\"", i + 1)
        chars == SubSeq(s, i + 1, j - 1)
    IN IF j = 0 \/ \E m \in DOMAIN chars : chars[m] \in {"\n", "\t", "\r"}
       THEN Fail
       ELSE Ok(Str(chars), j + 1)

RECURSIVE ParseValue(_, _)
RECURSIVE ParseMembers(_, _, _)
RECURSIVE ParseElements(_, _, _)

\* json.scanner: one value that starts at index i
ParseValue(s, i) ==
    IF i > Len(s) THEN Fail
    ELSE CASE s[i] = "\"" -> ParseString(s, i)
           [] s[i] = "{" ->
                Only({ IF j <= Len(s) /\ s[j] = "}"
                       THEN Ok(Obj(<<>>), j + 1)
                       ELSE ParseMembers(s, j, <<>>)
                       : j \in {SkipWs(s, i + 1)} })
           [] s[i] = "[" ->
                Only({ IF j <= Len(s) /\ s[j] = "]"
                       THEN Ok(Arr(<<>>), j + 1)
                       ELSE ParseElements(s, j, <<>>)
                       : j \in {SkipWs(s, i + 1)} })
           [] s[i] = "null" -> Ok(Null, i + 1)
           [] s[i] = "true" -> Ok(Bool(TRUE), i + 1)
           [] s[i] = "false" -> Ok(Bool(FALSE), i + 1)
           [] s[i] = "-" \/ IsDigit(s[i]) -> ParseNumber(s, i)
           [] OTHER -> Fail

\* json.decoder.JSONObject: the pairs of an object, from the key at index i
ParseMembers(s, i, acc) ==
    IF i > Len(s) \/ s[i] # "\"" THEN Fail
    ELSE Only({
      IF ~key.ok THEN Fail
      ELSE Only({
        IF colon > Len(s) \/ s[colon] # ":" THEN Fail
        ELSE Only({
          IF ~v.ok THEN Fail
          ELSE Only({
            IF e > Len(s) THEN Fail
            ELSE IF s[e] = "}" THEN Ok(Obj(pairs), e + 1)
            ELSE IF s[e] = ","
                 THEN Only({ ParseMembers(s, next, pairs)
                             : next \in {SkipWs(s, e + 1)} })
            ELSE Fail
            : pairs \in {Put(acc, key.val.chars, v.val)},
              e \in {SkipWs(s, v.pos)} })
          : v \in {ParseValue(s, SkipWs(s, colon + 1))} })
        : colon \in {SkipWs(s, key.pos)} })
      : key \in {ParseString(s, i)} })

\* json.decoder.JSONArray: the items of an array, from the value at index i
ParseElements(s, i, acc) ==
    Only({
      IF ~v.ok THEN Fail
      ELSE Only({
        IF e > Len(s) THEN Fail
        ELSE IF s[e] = "]" THEN Ok(Arr(items), e + 1)
        ELSE IF s[e] = ","
             THEN Only({ ParseElements(s, next, items)
                         : next \in {SkipWs(s, e + 1)} })
        ELSE Fail
        : items \in {Append(acc, v.val)}, e \in {SkipWs(s, v.pos)} })
      : v \in {ParseValue(s, i)} })

\* json.loads: one value, white space around it, nothing after it
json_loads(s) ==
    Only({ IF r.ok /\ SkipWs(s, r.pos) > Len(s) THEN r ELSE Fail
           : r \in {ParseValue(s, SkipWs(s, 1))} })

DecimalCommasKept(s) == s

\* re.sub(r"(\d),(\d)", r"\1.\2", repaired)
RECURSIVE DecimalCommas(_)
DecimalCommas(s) ==
    IF s = <<>> THEN <<>>
    ELSE IF Len(s) >= 3 /\ IsDigit(s[1]) /\ s[2] = "," /\ IsDigit(s[3])
         THEN <<s[1], ".", s[3]>> \o DecimalCommas(SubSeq(s, 4, Len(s)))
    ELSE <<s[1]>> \o DecimalCommas(Tail(s))

\* repaired.replace(",,", ",")
RECURSIVE DoubleCommas(_)
DoubleCommas(s) ==
    IF s = <<>> THEN <<>>
    ELSE IF Len(s) >= 2 /\ s[1] = "," /\ s[2] = ","
         THEN <<",">> \o DoubleCommas(SubSeq(s, 3, Len(s)))
    ELSE <<s[1]>> \o DoubleCommas(Tail(s))

\* a match of r'"score"\s*:\s*"([^"]+)"' that starts at index i: the
\* indices of the two quotes around the group, or <<0, 0>>
ScoreMatch(s, i) ==
    LET colon == SkipWs(s, i + 3)
        open == SkipWs(s, colon + 1)
        close == find(s, "\"", open + 1)
    IN IF /\ i + 2 <= Len(s)
          /\ s[i] = "\"" /\ s[i + 1] = "score" /\ s[i + 2] = "\""
          /\ colon <= Len(s) /\ s[colon] = ":"
          /\ open <= Len(s) /\ s[open] = "\""
          /\ close > open + 1
       THEN <<open, close>>
       ELSE <<0, 0>>

\* m.group(1).split(",")[0].strip()
FirstNumberOf(group) ==
    LET comma == find(group, ",", 1)
    IN strip(IF comma = 0 THEN group ELSE SubSeq(group, 1, comma - 1),
             Whitespace)

\* re.sub(r'"score"\s*:\s*"([^"]+)"', lambda m: ..., repaired)
RECURSIVE TruncateScore(_, _)
TruncateScore(s, i) ==
    IF i > Len(s) THEN <<>>
    ELSE LET m == ScoreMatch(s, i)
         IN IF m[1] = 0 THEN <<s[i]>> \o TruncateScore(s, i + 1)
            ELSE <<"\"", "score", "\"", ":", " ", "\"">>
                   \o FirstNumberOf(SubSeq(s, m[1] + 1, m[2] - 1))
                   \o <<"\"">> \o TruncateScore(s, m[2] + 1)

\* the repair of parse_validation_response
Repair(cand) ==
    Only({
      Only({
        Only({ TruncateScore(single, 1)
               : single \in {DoubleCommas(decimal)} })
        : decimal \in {DecimalCommas(no_newlines)} })
      : no_newlines \in {replace(cand, "\n", " ")} })

\* float(cand) for a string: white space around, a sign, digits with at
\* most one point and a digit on at least one side of it
FloatOfStr(cand) ==
    LET s == strip(cand, Whitespace)
        neg == s # <<>> /\ s[1] = "-"
        a == IF neg THEN 2 ELSE 1
        b == DigitsEnd(s, a)
        dot == b <= Len(s) /\ s[b] = "."
        c == IF dot THEN DigitsEnd(s, b + 1) ELSE b
        whole == SubSeq(s, a, b - 1)
        frac == IF dot THEN SubSeq(s, b + 1, c - 1) ELSE <<>>
        mant == Natural(whole \o frac)
    IN IF c = Len(s) + 1 /\ Len(whole) + Len(frac) > 0
       THEN Ok(Num(IF neg THEN 0 - mant ELSE mant, Len(frac)), c)
       ELSE Fail

_to_float(val) ==
    CASE val.t = "num" -> val
      [] val.t = "bool" -> Num(IF val.b THEN 1 ELSE 0, 0)
      [] val.t = "str" ->
           LET cand == strip(strip(strip(val.chars, Whitespace), {"\""}),
                             {"'"})
               f == FloatOfStr(cand)
           IN IF f.ok THEN f.val ELSE Num(0, 0)
      [] OTHER -> Num(0, 0)

_NUMBER_FIELDS ==
    {Key("score"), Key("structure"), Key("content"), Key("language"),
     Key("formatting")}

\* on a dict; on any other value the function raises
_coerce_numbers(d) ==
    Obj([k \in DOMAIN d.fields |->
            IF k \in _NUMBER_FIELDS THEN _to_float(d.fields[k])
            ELSE d.fields[k]])

setdefault(d, k, v) ==
    IF k \in DOMAIN d.fields THEN d ELSE Obj(Put(d.fields, k, v))

ParseFailureIssue == Str(<<"parse_failure">>)
CheckPromptSuggestion == Str(<<"check_prompt">>)

DefaultDataEmpty == Obj(<<>>)

\* the default structure of lines 131-138
DefaultData ==
    Obj([k \in {Key("score"), Key("structure"), Key("content"),
                Key("language"), Key("issues"), Key("suggestions")} |->
            CASE k = Key("issues") -> Arr(<<ParseFailureIssue>>)
              [] k = Key("suggestions") -> Arr(<<CheckPromptSuggestion>>)
              [] OTHER -> Num(5, 0)])

\* the outcome of the call: raised, or the returned report, with the
\* candidate block and the attempt that gave the data
\* the try of lines 107-138: the data and the attempt that gave it
LoadOrRepair(cand) ==
    Only({
      IF first.ok THEN [path |-> "first", data |-> first.val]
      ELSE Only({
        Only({ IF second.ok
               THEN [path |-> "repaired", data |-> second.val]
               ELSE [path |-> "default", data |-> DefaultData]
               : second \in {json_loads(repaired)} })
        : repaired \in {Repair(cand)} })
      : first \in {json_loads(cand)} })

parse_validation_response(raw) ==
    Only({
      Only({
        Only({
          [candidate |-> cand,
           path |-> got.path,
           raised |-> got.data.t # "obj",
           report |-> IF got.data.t # "obj" THEN None
                      ELSE setdefault(setdefault(_coerce_numbers(got.data),
                                                 Key("issues"), Arr(<<>>)),
                                      Key("suggestions"), Arr(<<>>))]
          : got \in {LoadOrRepair(cand)} })
        : cand \in {_extract_json_block(clean)} })
      : clean \in {replace(replace(raw, "\r", " "), "\t", " ")} })

\* the replies parse_validation_response is called with: a body, with
\* prose, a markdown fence or white space before and after it
Quoted(w) == <<"\"", w, "\"">>
Pair(k, v) == Quoted(k) \o <<":", " ">> \o v
Braced(members) == <<"{">> \o members \o <<"}">>
Sep == <<",", " ">>
EmptyList == <<"[", "]">>
ScoreOnly(v) == Braced(Pair("score", v))

ObjectBodies ==
    { ScoreOnly(<<"9", ".", "2">>),
      ScoreOnly(<<"1", "0">>),
      ScoreOnly(<<"0">>),
      ScoreOnly(<<"1", "5">>),
      ScoreOnly(<<"-", "1">>),
      ScoreOnly(<<"\"", "9", ",", "2", "\"">>),
      ScoreOnly(<<"\"", "1", "5", "\"">>),
      ScoreOnly(<<"true">>),
      ScoreOnly(<<"null">>),
      ScoreOnly(Braced(Pair("x", <<"1">>))),
      Braced(Pair("issues", EmptyList)),
      Braced(Pair("score", <<"9", ",", "2">>) \o Sep
               \o Pair("issues", EmptyList)),
      Braced(Pair("score", <<"8">>) \o Sep \o Pair("issues", <<"null">>)),
      Braced(Pair("score", <<"8">>) \o Sep
               \o Pair("issues", <<"[">> \o Quoted("x") \o <<"]">>) \o Sep
               \o Pair("suggestions", EmptyList) \o Sep
               \o Pair("blocking_issues", EmptyList) \o Sep
               \o Pair("section_patches", EmptyList) \o Sep
               \o Pair("inline_fixes", EmptyList)),
      ScoreOnly(<<"8">>) \o <<" ">> \o ScoreOnly(<<"3">>) }

\* scores written with a comma for the point: the digits before and after
CommaScores ==
    { <<(<<"9">>), (<<"2">>)>>, <<(<<"7">>), (<<"5">>)>>,
      <<(<<"1", "0">>), (<<"0">>)>>, <<(<<"9">>), (<<"2", "5">>)>> }

\* an object with such a score and an empty issues list
CommaBody(d) ==
    Braced(Pair("score", d[1] \o <<",">> \o d[2]) \o Sep
             \o Pair("issues", EmptyList))

CommaBodies == { CommaBody(d) : d \in CommaScores }

BrokenBodies ==
    { Braced(Pair("score", <<"\"", "9", ".", "0", ",", " ", "x", "\"">>)
               \o <<",", ",", " ">> \o Pair("issues", EmptyList)),
      Braced(Pair("score", <<"8">>) \o <<",">>),
      Braced(Pair("score", <<"8">>) \o Sep
               \o Pair("x", <<"\"", "}", "\"">>)),
      Braced(Pair("score", <<"8">>) \o Sep
               \o Pair("x", <<"\"", "{", "\"">>)),
      Braced(Pair("score", <<"8">>) \o Sep
               \o Pair("x", <<"\"", "x", "\n", "x", "\"">>)),
      <<"{">> \o Pair("score", <<"8">>) }

BareBodies ==
    { <<"5">>, Quoted("x"), Quoted("score"), EmptyList, <<"null">>,
      <<"x">>, <<>> }

Prefixes == { <<>>, <<"x", " ">>, <<Fence, "json", "\n">>,
              <<"\t", "x", "\r", "\n">> }
Suffixes == { <<>>, <<" ", "x">>, <<"\n", Fence>> }

ParserInputs ==
    { p \o b \o s : p \in Prefixes,
                    b \in ObjectBodies \cup CommaBodies \cup BrokenBodies
                            \cup BareBodies,
                    s \in Suffixes }

\* the call of parse_validation_response, from its entry to its return
\* or to the exception that leaves it
ParseCall ==
    /\ parse_pc = "call"
    /\ \E r \in {parse_validation_response(content)} :
          /\ candidate' = r.candidate
          /\ parse_path' = r.path
          /\ parsed' = r.report
          /\ parse_pc' = IF r.raised THEN "raised" ELSE "ret"
    /\ UNCHANGED <<content, args, patching, editing, pair, rlhf_locals,
                   loop_locals, calls, tops, scoring, pc, result, last_event>>

---------------------------------------------------------------------------

Init ==
    /\ entry \in Entries
    /\ api_key \in BOOLEAN
    /\ use_claude \in (IF entry \in {"agent", "rlhf"} THEN BOOLEAN ELSE {TRUE})
    /\ analysis_type \in (IF entry = "rlhf" THEN AnalysisTypes ELSE {"zodiac"})
    /\ text \in (IF entry = "rlhf" THEN RlhfTexts ELSE InputTexts)
    /\ target_score \in
          (CASE entry = "refine" -> Targets
             [] entry = "rlhf" -> {TargetFor(analysis_type)}
             [] OTHER -> {DefaultTarget})
    /\ max_iterations \in
          (CASE entry = "refine" -> 0..MaxIter
             [] entry = "rlhf" -> {RlhfMaxIterations}
             [] OTHER -> {WrapperMaxIterations})
    /\ pc = "start"
    /\ current_text = text
    /\ iteration = 0
    /\ current_score = 0
    /\ improved_text = None
    /\ best_text = None
    /\ best_score = 0
    /\ history_len = 0
    /\ report = None
    /\ scored_text = None
    /\ scorer_path = "none"
    /\ result = <<>>
    /\ critic_calls = 0
    /\ fixer_calls = 0
    /\ fix_failed = FALSE
    /\ top_score = -100
    /\ top_texts = {}
    /\ last_event = "none"
    /\ content = <<>>
    /\ candidate = <<>>
    /\ parse_path = "none"
    /\ parsed = None
    /\ parse_pc = "idle"
    /\ patch_text = <<>>
    /\ patch_report = None
    /\ patch_prev = <<>>
    /\ patch_pc = "idle"
    /\ prev_score = 0
    /\ similarity = 0
    /\ editing_mode = "none"
    /\ runs = <<>>
    /\ frames = <<>>

Next ==
    \/ Begin
    \/ \E o \in CriticOutcomes : CriticReply(o)
    \/ \E o \in FixerOutcomes : FixerReply(o)
    \/ \E o \in CriticOutcomes : FinalReply(o)
    \/ AnthropicReturn
    \/ \E o \in CriticOutcomes : AgentFinalReply(o)
    \/ EscapeRefinement
    \/ EscapeAgent
    \/ BeginLocal
    \/ \E v \in BOOLEAN, t \in LocalFixTexts : LocalPass(v, t)
    \/ BeginImprove
    \/ \E o \in CriticOutcomes : ImproveCriticReply(o)
    \/ ImproveLocalScore
    \/ \E o \in GenerationOutcomes : Regenerated(o)

Spec == Init /\ [][Next]_vars

---------------------------------------------------------------------------
(* iterative_refinement called directly, every awaited call ending: the   *)
(* critic and the fixer reply or fail, or an exception leaves the run     *)

RefineInit == Init /\ entry = "refine"

RefineNext ==
    \/ Begin
    \/ \E o \in CriticOutcomes : CriticReply(o)
    \/ \E o \in FixerOutcomes : FixerReply(o)
    \/ \E o \in CriticOutcomes : FinalReply(o)
    \/ EscapeRefinement

RefineSpec == RefineInit /\ [][RefineNext]_vars /\ WF_vars(RefineNext)

---------------------------------------------------------------------------
(* parse_validation_response on its own: one call for each reply *)

ParseInit ==
    /\ content \in ParserInputs
    /\ candidate = <<>>
    /\ parse_path = "none"
    /\ parsed = None
    /\ parse_pc = "call"
    /\ patch_text = <<>>
    /\ patch_report = None
    /\ patch_prev = <<>>
    /\ patch_pc = "idle"
    /\ entry = "parse"
    /\ api_key = FALSE
    /\ use_claude = FALSE
    /\ analysis_type = "zodiac"
    /\ text = None
    /\ target_score = DefaultTarget
    /\ max_iterations = 0
    /\ pc = "idle"
    /\ current_text = None
    /\ iteration = 0
    /\ current_score = 0
    /\ improved_text = None
    /\ best_text = None
    /\ best_score = 0
    /\ history_len = 0
    /\ report = None
    /\ scored_text = None
    /\ scorer_path = "none"
    /\ result = <<>>
    /\ critic_calls = 0
    /\ fixer_calls = 0
    /\ fix_failed = FALSE
    /\ top_score = -100
    /\ top_texts = {}
    /\ last_event = "none"
    /\ prev_score = 0
    /\ similarity = 0
    /\ editing_mode = "none"
    /\ runs = <<>>
    /\ frames = <<>>

ParseNext == ParseCall

ParseSpec == ParseInit /\ [][ParseNext]_vars

---------------------------------------------------------------------------
(* patch_applier.py.  A text is a sequence of symbols: a newline, a blank,  *)
(* or a word written as a unit.  The regular expressions of the code are    *)
(* followed symbol by symbol, as the re module matches them.                *)

\* ^ under re.MULTILINE, at the position before symbol p
LineStart(t, p) == p = 1 \/ t[p - 1] = "\n"

\* $ under re.MULTILINE, at the position before symbol p
LineEnd(t, p) == p = Len(t) + 1 \/ t[p] = "\n"

\* the literal w stands in t from position p on
StartsWith(t, p, w) ==
    /\ p + Len(w) - 1 <= Len(t)
    /\ SubSeq(t, p, p + Len(w) - 1) = w

\* the end of a match of rf"(?m)^\s*{re.escape(title)}\s*$" that starts at
\* p, or 0: the white space before the title is taken whole, the white
\* space after it as far as a line end allows
HeadingEnd(t, title, p) ==
    IF ~LineStart(t, p) THEN 0
    ELSE Only({
           IF ~StartsWith(t, a, title) THEN 0
           ELSE Only({
                  IF ends = {} THEN 0
                  ELSE CHOOSE q \in ends : \A r \in ends : r <= q
                  : ends \in {{q \in (a + Len(title))
                                       ..SkipWs(t, a + Len(title)) :
                                 LineEnd(t, q)}} })
           : a \in {SkipWs(t, p)} })

\* the positions at which the heading pattern matches
HeadingStarts(t, title) ==
    {p \in 1..(Len(t) + 1) : HeadingEnd(t, title, p) > 0}

\* find_section: m.start() of pat.search(text), 0 for the -1 of the code
find_section(t, title) ==
    Only({ IF starts = {} THEN 0
           ELSE CHOOSE p \in starts : \A r \in starts : p <= r
           : starts \in {HeadingStarts(t, title)} })

\* .*?(?=^\S|\Z) from position q: the first position at or after q that is
\* the start of a line beginning with a symbol that is no white space, or
\* the end of the text
RECURSIVE SectionEnd(_, _)
SectionEnd(t, q) ==
    IF q > Len(t) THEN Len(t) + 1
    ELSE IF LineStart(t, q) /\ t[q] \notin Whitespace THEN q
    ELSE SectionEnd(t, q + 1)

\* sec_pat.search from position from: the first match of
\* rf"(?ms)^\s*{re.escape(title)}\s*$.*?(?=^\S|\Z)", as <<start, end>> with
\* end the position after the match, or <<0, 0>>
SectionMatch(t, title, from) ==
    Only({ IF starts = {} THEN <<0, 0>>
           ELSE Only({ <<p, SectionEnd(t, HeadingEnd(t, title, p))>>
                       : p \in {CHOOSE p \in starts :
                                   \A r \in starts : p <= r} })
           : starts \in {{p \in HeadingStarts(t, title) : p >= from}} })

\* re.sub(section pattern, repl, text): every match, from left to right
RECURSIVE SubSections(_, _, _, _)
SubSections(t, title, repl, from) ==
    Only({ IF m[1] = 0 THEN SubSeq(t, from, Len(t))
           ELSE SubSeq(t, from, m[1] - 1) \o repl
                  \o SubSections(t, title, repl, m[2])
           : m \in {SectionMatch(t, title, from)} })

\* text.replace(find, repl): every occurrence, from left to right
RECURSIVE ReplaceAll(_, _, _, _)
ReplaceAll(t, f, r, from) ==
    IF from > Len(t) THEN <<>>
    ELSE IF StartsWith(t, from, f)
         THEN r \o ReplaceAll(t, f, r, from + Len(f))
    ELSE <<t[from]>> \o ReplaceAll(t, f, r, from + 1)

\* find in text
Occurs(t, f) == \E p \in 1..(Len(t) + 1) : StartsWith(t, p, f)

\* the value of a key of a dict of the report: a string or a list, None,
\* or no such key
Given(v) == [k |-> "value", v |-> v]
PyNone == [k |-> "none", v |-> <<>>]
Absent == [k |-> "absent", v |-> <<>>]

\* (d.get(key) or default)
GetOr(x, default) == IF x.k = "value" /\ x.v # <<>> THEN x.v ELSE default

\* str.lower() on the words an action is written with
lower(s) ==
    [i \in DOMAIN s |->
        CASE s[i] = "REPLACE" -> "replace"
          [] s[i] = "Insert" -> "insert"
          [] OTHER -> s[i]]

\* text.rstrip() + f"\n\n{content}\n"
AtEnd(t, patch_content) ==
    rstrip(t, Whitespace) \o <<"\n", "\n">> \o patch_content \o <<"\n">>

\* lines 93-99: the section found is kept, stripped on the right, and the
\* content is put after it
AppendToSection(t, title, patch_content) ==
    Only({ SubSeq(t, 1, m[1] - 1)
             \o rstrip(SubSeq(t, m[1], m[2] - 1), Whitespace) \o <<"\n">>
             \o <<"\n">> \o strip(patch_content, Whitespace) \o <<"\n">>
             \o SubSeq(t, m[2], Len(t))
           : m \in {SectionMatch(t, title, 1)} })

\* a pass that skips the patch only when its content is empty: with no
\* title the content is put at the end of the text
ApplySectionPatchUntitled(t, p) ==
    Only({
      IF patch_content = <<>> THEN t
      ELSE IF title = <<>> THEN AtEnd(t, patch_content)
      ELSE IF find_section(t, title) = 0 THEN AtEnd(t, patch_content)
      ELSE IF action \in {<<"insert">>, <<"replace">>}
           THEN SubSections(t, title, patch_content \o <<"\n">>, 1)
      ELSE AppendToSection(t, title, patch_content)
      : title \in {strip(GetOr(p.title, <<>>), Whitespace)},
        action \in {lower(strip(GetOr(p.action, <<"append">>), Whitespace))},
        patch_content \in {strip(GetOr(p.content, <<>>), Whitespace)} })

\* one pass of the loop of lines 52-103 over the patch p
ApplySectionPatch(t, p) ==
    Only({
      IF title = <<>> \/ patch_content = <<>> THEN t
      ELSE IF find_section(t, title) = 0 THEN AtEnd(t, patch_content)
      ELSE IF action \in {<<"insert">>, <<"replace">>}
           THEN SubSections(t, title, patch_content \o <<"\n">>, 1)
      ELSE AppendToSection(t, title, patch_content)
      : title \in {strip(GetOr(p.title, <<>>), Whitespace)},
        action \in {lower(strip(GetOr(p.action, <<"append">>), Whitespace))},
        patch_content \in {strip(GetOr(p.content, <<>>), Whitespace)} })

\* one pass of the loop of lines 32-38 over the fix fx
ApplyInlineFix(t, fx) ==
    Only({
      IF find_ # <<>> /\ repl # <<>> /\ Occurs(t, find_)
      THEN ReplaceAll(t, find_, repl, 1)
      ELSE t
      : find_ \in {strip(GetOr(fx.find, <<>>), Whitespace)},
        repl \in {strip(GetOr(fx.replace, <<>>), Whitespace)} })

\* the loop of lines 32-38
RECURSIVE ApplyInlineFixes(_, _)
ApplyInlineFixes(t, fixes) ==
    IF fixes = <<>> THEN t
    ELSE Only({ ApplyInlineFixes(u, Tail(fixes))
                : u \in {ApplyInlineFix(t, Head(fixes))} })

\* the loop of lines 52-103
RECURSIVE ApplySectionPatches(_, _)
ApplySectionPatches(t, patches) ==
    IF patches = <<>> THEN t
    ELSE Only({ ApplySectionPatches(u, Tail(patches))
                : u \in {ApplySectionPatch(t, Head(patches))} })

GetListOrNone(x) == IF x.k = "absent" THEN PyNone ELSE x

\* report.get(key, []): the list, the empty list for no key; None stays
GetList(x) == IF x.k = "absent" THEN Given(<<>>) ELSE x

\* a call that applies the section patches first and the inline fixes to
\* the text they leave
apply_validator_patches_sections_first(current_text_, report_) ==
    Only({
      IF inline_fixes.k = "none" THEN [raised |-> TRUE, text |-> <<>>]
      ELSE [raised |-> FALSE,
            text |-> ApplyInlineFixes(
                         ApplySectionPatches(current_text_, patches.v),
                         inline_fixes.v)]
      : inline_fixes \in {GetList(report_.inline_fixes)},
        patches \in {GetList(report_.section_patches)} })

\* the outcome of the call: raised (iterating over None), or the text
apply_validator_patches(current_text_, report_) ==
    Only({
      IF inline_fixes.k = "none" THEN [raised |-> TRUE, text |-> <<>>]
      ELSE [raised |-> FALSE,
            text |-> ApplySectionPatches(
                         ApplyInlineFixes(current_text_, inline_fixes.v),
                         patches.v)]
      : inline_fixes \in {GetList(report_.inline_fixes)},
        patches \in {GetList(report_.section_patches)} })

\* the texts apply_validator_patches is called with: sections A and B with
\* bodies that start at the margin or are indented, blank lines, an
\* introduction, a heading that comes twice, white space at the ends
PatchTexts ==
    { <<>>,
      <<"a">>,
      <<"A">>,
      <<"A", "\n", "a", "\n", "B", "\n", "b", "\n">>,
      <<"A", "\n", " ", "a", "\n", "B", "\n", " ", "b">>,
      <<"A", "\n", " ", "a", "\n", "\n", "B", "\n", " ", "b", "\n">>,
      <<"A", "\n", " ", "a", " ", "\n", "\n", "\n", "\n", "B", "\n">>,
      <<"a", "\n", "\n", "A", "\n", " ", "a", "\n">>,
      <<"\n", "A", "\n", "a", "\n">>,
      <<"A", "\n", " ", "a", "\n", "A", "\n", " ", "b", "\n">>,
      <<" ", "A", " ", "\n", " ", "a", "\n", "b", " ", "\n">>,
      <<"B", "\n", "A", " ", "a", "\n", "new", "\n">> }

Fix(f, r) == [find |-> f, replace |-> r]
Patch(t, a, c) == [title |-> t, action |-> a, content |-> c]

PatchTitles ==
    { Given(<<"A">>), Given(<<"Z">>), Given(<<" ", "A", " ">>),
      Given(<<>>), PyNone, Absent }
PatchActions ==
    { Given(<<"insert">>), Given(<<"replace">>), Given(<<"append">>),
      Given(<<"REPLACE", " ">>), Given(<<"merge">>), Absent }
PatchContents ==
    { Given(<<"new">>), Given(<<"A", "\n", " ", "new">>),
      Given(<<" ", "new", "\n">>), Given(<<>>), Absent }

\* a patch that is well formed, for each action
GoodPatches ==
    { Patch(Given(<<"A">>), Given(<<a>>), Given(<<"new">>))
        : a \in {"insert", "replace", "append"} }

\* a patch with no title or no content
MalformedPatches ==
    { Patch(Absent, Given(<<"replace">>), Given(<<"new">>)),
      Patch(Given(<<"A">>), Given(<<"append">>), Given(<<" ">>)),
      Patch(PyNone, Absent, PyNone) }

InlineFixLists ==
    { Given(<<Fix(Given(<<"a">>), Given(<<"b">>))>>),
      Given(<<Fix(Given(<<"new">>), Given(<<"b">>))>>),
      Given(<<Fix(Given(<<"a">>), Given(<<>>))>>),
      Given(<<Fix(Given(<<>>), Given(<<"b">>))>>),
      Given(<<Fix(Absent, PyNone)>>),
      Given(<<Fix(Given(<<"a", "\n">>), Given(<<"a", " ", "b", "\n">>)),
              Fix(Given(<<"b">>), Given(<<"new">>))>>),
      PyNone }

NoList == { Absent, Given(<<>>) }

OnePatchLists ==
    { Given(<<Patch(t, a, c)>>)
        : t \in PatchTitles, a \in PatchActions, c \in PatchContents }

TwoPatchLists ==
    { Given(<<p, q>>) : p \in MalformedPatches \cup GoodPatches,
                        q \in GoodPatches }

PatchReports ==
    { [inline_fixes |-> i, section_patches |-> s]
        : i \in NoList,
          s \in NoList \cup {PyNone} \cup OnePatchLists \cup TwoPatchLists }
      \cup
    { [inline_fixes |-> i, section_patches |-> s]
        : i \in InlineFixLists,
          s \in NoList \cup { Given(<<p>>) : p \in GoodPatches } }

\* one call of apply_validator_patches; the text it returns is the text
\* of the next call, with the same report
ApplyPatches ==
    /\ patch_pc = "call"
    /\ Len(patch_prev) < MaxApplications
    /\ \E r \in {apply_validator_patches(patch_text, patch_report)} :
          /\ patch_text' = r.text
          /\ patch_pc' = IF r.raised THEN "raised" ELSE "call"
    /\ patch_prev' = Append(patch_prev, patch_text)
    /\ UNCHANGED <<patch_report, args, parsing, editing, pair, rlhf_locals,
                   loop_locals, calls, tops, scoring, pc, result, last_event>>

\* no call of the refinement coroutines is under way
NoRun ==
    /\ api_key = FALSE
    /\ use_claude = FALSE
    /\ analysis_type = "zodiac"
    /\ text = None
    /\ target_score = DefaultTarget
    /\ max_iterations = 0
    /\ pc = "idle"
    /\ current_text = None
    /\ iteration = 0
    /\ current_score = 0
    /\ improved_text = None
    /\ best_text = None
    /\ best_score = 0
    /\ history_len = 0
    /\ report = None
    /\ scored_text = None
    /\ scorer_path = "none"
    /\ result = <<>>
    /\ critic_calls = 0
    /\ fixer_calls = 0
    /\ fix_failed = FALSE
    /\ top_score = -100
    /\ top_texts = {}
    /\ last_event = "none"

PatchInit ==
    /\ patch_text \in PatchTexts
    /\ patch_report \in PatchReports
    /\ patch_prev = <<>>
    /\ patch_pc = "call"
    /\ entry = "patch"
    /\ NoRun
    /\ content = <<>>
    /\ candidate = <<>>
    /\ parse_path = "none"
    /\ parsed = None
    /\ parse_pc = "idle"
    /\ prev_score = 0
    /\ similarity = 0
    /\ editing_mode = "none"
    /\ runs = <<>>
    /\ frames = <<>>

PatchNext == ApplyPatches

PatchSpec == PatchInit /\ [][PatchNext]_vars

---------------------------------------------------------------------------
(* patch_applier.py: determine_editing_mode.  Scores are in tenths and    *)
(* similarities in hundredths.                                            *)

\* determine_editing_mode: lines 154-174
determine_editing_mode(iteration_, current_score_, prev_score_, similarity_) ==
    LET score_delta == IF prev_score_ > 0
                       THEN current_score_ - prev_score_
                       ELSE 0
    IN IF iteration_ >= 2 /\ score_delta < 5 THEN "hard"
       ELSE IF similarity_ > 95 THEN "hard"
       ELSE IF iteration_ >= 3 /\ current_score_ < 70 THEN "hard"
       ELSE "soft"

\* the arguments determine_editing_mode is called with: iterations from the
\* first on, scores within [0, 10] that differ by less than 0.5, by 0.5 and
\* by more, similarities around 0.95
ModeIterations == 1..4
ModeScores == {0, 4, 5, 60, 65, 69, 70, 74, 75, 100}
ModeSimilarities == {0, 50, 95, 96, 97, 100}

\* one call of determine_editing_mode
DetermineMode ==
    /\ entry = "mode"
    /\ editing_mode = "none"
    /\ editing_mode' = determine_editing_mode(iteration, current_score,
                                              prev_score, similarity)
    /\ UNCHANGED <<args, parsing, patching, pair, rlhf_locals, loop_locals,
                   calls, tops, scoring, pc, result, last_event, prev_score,
                   similarity>>

ModeInit ==
    /\ entry = "mode"
    /\ iteration \in ModeIterations
    /\ current_score \in ModeScores
    /\ prev_score \in ModeScores
    /\ similarity \in ModeSimilarities
    /\ editing_mode = "none"
    /\ api_key = FALSE
    /\ use_claude = FALSE
    /\ analysis_type = "zodiac"
    /\ text = None
    /\ target_score = DefaultTarget
    /\ max_iterations = 0
    /\ pc = "idle"
    /\ current_text = None
    /\ improved_text = None
    /\ best_text = None
    /\ best_score = 0
    /\ history_len = 0
    /\ report = None
    /\ scored_text = None
    /\ scorer_path = "none"
    /\ result = <<>>
    /\ critic_calls = 0
    /\ fixer_calls = 0
    /\ fix_failed = FALSE
    /\ top_score = -100
    /\ top_texts = {}
    /\ last_event = "none"
    /\ content = <<>>
    /\ candidate = <<>>
    /\ parse_path = "none"
    /\ parsed = None
    /\ parse_pc = "idle"
    /\ patch_text = <<>>
    /\ patch_report = None
    /\ patch_prev = <<>>
    /\ patch_pc = "idle"
    /\ runs = <<>>
    /\ frames = <<>>

ModeNext == DetermineMode

ModeSpec == ModeInit /\ [][ModeNext]_vars

---------------------------------------------------------------------------
(* Two calls of iterative_refinement on one ClaudeValidatorAgent, taken   *)
(* in any interleaving of their suspension points.  The agent holds       *)
(* api_key, which the calls only read; the replies each call receives     *)
(* are fixed in advance, the k-th call of a run to a service getting the  *)
(* k-th reply of that run.                                                *)

RunIds == {1, 2}

\* the frame on the agent that every call would use if the local variables
\* were attributes of the agent
SharedCell(r) == 1

\* current_text, iteration, current_score and improved_text are local
\* variables of the coroutine: each call has its own frame
Cell(r) == r

PairMaxIterations == {1, 2}

\* the text run r is called with, and the texts its fixer replies with
PairText(r) == MkText(150, 0, 21, 0, FALSE, FALSE, r)
PairFixerOutcomes(r) ==
    { [kind |-> "exception", body |-> None],
      [kind |-> "reply", body |-> MkText(160, 0, 22, 0, FALSE, FALSE, 10 + r)],
      [kind |-> "reply", body |-> MkText(104, 0, 14, 0, FALSE, FALSE, 20 + r)] }
PairCriticOutcomes ==
    { [kind |-> "exception", body |-> None],
      [kind |-> "reply", body |-> [fmt |-> "dot", tenths |-> 100]] }

\* sequences of length n over S
SeqsOf(S, n) == [1..n -> S]

\* the calls run r may be: its arguments and the replies it will get
RunArgs(r) ==
    UNION { { [text |-> PairText(r),
               target_score |-> DefaultTarget,
               max_iterations |-> n,
               update_callback |-> (r = 1),
               critic_replies |-> cs,
               fixer_replies |-> fs,
               pc |-> "start",
               critic_calls |-> 0,
               fixer_calls |-> 0,
               result |-> <<>>]
              : cs \in SeqsOf(PairCriticOutcomes, n + 1),
                fs \in SeqsOf(PairFixerOutcomes(r), n) }
            : n \in PairMaxIterations }

NoFrame ==
    [current_text |-> None, iteration |-> 0, current_score |-> 0,
     improved_text |-> None]

\* run r alone: the locals of the call, from which the other steps read
Frame(r) == frames[Cell(r)]

\* the loop test of line 229 for run r with i iterations made
PairLoopHead(r, i) ==
    IF i < runs[r].max_iterations
    THEN [iteration |-> i + 1, pc |-> "score"]
    ELSE [iteration |-> i, pc |-> "final"]

\* lines 223-229: the call of run r starts
PairBegin(r) ==
    /\ runs[r].pc = "start"
    /\ \E h \in {PairLoopHead(r, 0)} :
          /\ frames' = [frames EXCEPT ![Cell(r)] =
                           [current_text |-> runs[r].text,
                            iteration |-> h.iteration,
                            current_score |-> 0,
                            improved_text |-> None]]
          /\ runs' = [runs EXCEPT ![r].pc = h.pc]

\* lines 253-264: the test of the target, on the locals of the call
PairDecide(r, rs, fs) ==
    IF fs[Cell(r)].current_score >= rs[r].target_score
    THEN [rs EXCEPT ![r].pc = "ret",
                    ![r].result = <<fs[Cell(r)].current_text,
                                    fs[Cell(r)].current_score>>]
    ELSE [rs EXCEPT ![r].pc = "fix"]

\* lines 236-237: the scoring call of the loop returns
PairCriticReply(r) ==
    /\ runs[r].pc = "score"
    /\ \E rep \in {validate_and_score(api_key, Frame(r).current_text,
                       runs[r].critic_replies[runs[r].critic_calls + 1])} :
          /\ frames' = [frames EXCEPT ![Cell(r)].current_score = rep.score]
          /\ \E rs \in {[runs EXCEPT ![r].critic_calls = @ + 1]} :
                runs' = IF rs[r].update_callback
                        THEN [rs EXCEPT ![r].pc = "callback"]
                        ELSE PairDecide(r, rs, frames')

\* lines 243-251: update_callback returns or raises; its exception is
\* swallowed
PairCallback(r) ==
    /\ runs[r].pc = "callback"
    /\ runs' = PairDecide(r, runs, frames)
    /\ frames' = frames

\* lines 264-276: the fixer call returns
PairFixerReply(r) ==
    /\ runs[r].pc = "fix"
    /\ \E improved \in {fix_text_with_claude(api_key, Frame(r).current_text,
                           runs[r].fixer_replies[runs[r].fixer_calls + 1])} :
          IF Usable(improved) /\ ~TooShort(improved, Frame(r).current_text)
          THEN \E h \in {PairLoopHead(r, Frame(r).iteration)} :
                 /\ frames' = [frames EXCEPT
                                 ![Cell(r)].improved_text = improved,
                                 ![Cell(r)].current_text = improved,
                                 ![Cell(r)].iteration = h.iteration]
                 /\ runs' = [runs EXCEPT ![r].fixer_calls = @ + 1,
                                         ![r].pc = h.pc]
          ELSE /\ frames' = [frames EXCEPT
                               ![Cell(r)].improved_text = improved]
               /\ runs' = [runs EXCEPT ![r].fixer_calls = @ + 1,
                                       ![r].pc = "final"]

\* lines 280-294: the final scoring call returns
PairFinalReply(r) ==
    /\ runs[r].pc = "final"
    /\ \E rep \in {validate_and_score(api_key, Frame(r).current_text,
                       runs[r].critic_replies[runs[r].critic_calls + 1])} :
          runs' = [runs EXCEPT ![r].critic_calls = @ + 1,
                               ![r].pc = "ret",
                               ![r].result = <<Frame(r).current_text,
                                               rep.score>>]
    /\ frames' = frames

\* a step of run r
PairStep(r) ==
    /\ entry = "pair"
    /\ \/ PairBegin(r)
       \/ PairCriticReply(r)
       \/ PairCallback(r)
       \/ PairFixerReply(r)
       \/ PairFinalReply(r)
    /\ UNCHANGED <<args, parsing, patching, editing, rlhf_locals, loop_locals,
                   calls, tops, scoring, pc, result, last_event>>

PairInit ==
    /\ entry = "pair"
    /\ \E a \in RunArgs(1), b \in RunArgs(2) : runs = <<a, b>>
    /\ frames = <<NoFrame, NoFrame>>
    /\ api_key = TRUE
    /\ use_claude = TRUE
    /\ analysis_type = "zodiac"
    /\ text = None
    /\ target_score = DefaultTarget
    /\ max_iterations = 0
    /\ pc = "idle"
    /\ current_text = None
    /\ iteration = 0
    /\ current_score = 0
    /\ improved_text = None
    /\ best_text = None
    /\ best_score = 0
    /\ history_len = 0
    /\ report = None
    /\ scored_text = None
    /\ scorer_path = "none"
    /\ result = <<>>
    /\ critic_calls = 0
    /\ fixer_calls = 0
    /\ fix_failed = FALSE
    /\ top_score = -100
    /\ top_texts = {}
    /\ last_event = "none"
    /\ content = <<>>
    /\ candidate = <<>>
    /\ parse_path = "none"
    /\ parsed = None
    /\ parse_pc = "idle"
    /\ patch_text = <<>>
    /\ patch_report = None
    /\ patch_prev = <<>>
    /\ patch_pc = "idle"
    /\ prev_score = 0
    /\ similarity = 0
    /\ editing_mode = "none"

PairNext == \E r \in RunIds : PairStep(r)

PairSpec == PairInit /\ [][PairNext]_vars

---------------------------------------------------------------------------
(* Properties of iterative_refinement *)

Returned == pc = "ret" /\ entry = "refine"

\* C1 as stated: a run makes at most max_iterations scoring passes in total.
C1_AtMostMaxPasses == critic_calls <= max_iterations

\* C1 as amended: a run makes at most max_iterations + 1 scoring passes (the
\* passes of the loop and the final pass), the loop index never passes
\* max_iterations, and every step taken inside the run either makes another
\* call, of which there are boundedly many, or leaves the run: it cannot loop
\* forever.
C1_BoundedPasses ==
    /\ [](/\ critic_calls <= max_iterations + 1
          /\ iteration <= max_iterations
          /\ critic_calls <= iteration + 1
          /\ fixer_calls <= iteration)
    /\ [][(pc \in InLoop) =>
            (critic_calls' + fixer_calls' = critic_calls + fixer_calls + 1
               \/ pc' \notin InLoop)]_vars

C1_Witness ==
    /\ Returned
    /\ max_iterations >= 2
    /\ critic_calls = max_iterations + 1
    /\ fixer_calls = max_iterations

\* C2: when no scoring pass of the run reached target_score, the returned
\* text is one that received the highest score given during the run.
C2_ReturnsBestSeen ==
    (Returned /\ top_score < target_score) => result[1] \in top_texts

\* C3: a pass of the loop that yields a score >= target_score makes the run
\* return the text just scored with that score, and afterwards the run makes
\* no critic call and no fixer call.
C3_ConvergedReturnsScored ==
    /\ [][(pc = "score" /\ critic_calls' = critic_calls + 1
             /\ current_score' >= target_score)
          => (pc' = "ret" /\ result' = <<current_text, current_score'>>)]_vars
    /\ [][last_event = "converged"
          => (critic_calls' = critic_calls /\ fixer_calls' = fixer_calls
                /\ current_text' = current_text)]_vars

C3_Witness ==
    /\ Returned
    /\ last_event = "converged"
    /\ iteration >= 2
    /\ result[1] # text
    /\ result[2] = target_score

\* C4: when the fixer returns a candidate shorter than 70% of current_text,
\* current_text is the same after the iteration, and the run does not return
\* that candidate.
C4_ShortCandidateRejected ==
    /\ [][(fixer_calls' = fixer_calls + 1
             /\ 10 * improved_text'.len < 7 * current_text.len)
          => current_text' = current_text]_vars
    /\ []((pc \in {"ret", "done", "agent_score"} /\ fixer_calls > 0
             /\ last_event # "escaped" /\ last_event # "escaped_agent"
             /\ 10 * improved_text.len < 7 * current_text.len)
          => result[1] # improved_text)

C4_Witness ==
    /\ Returned
    /\ last_event = "final"
    /\ fixer_calls = 2
    /\ improved_text.len > 100
    /\ 10 * improved_text.len < 7 * current_text.len
    /\ result[1] = current_text

\* C5: rejecting a candidate shorter than 70% of current_text while the
\* iteration index is below max_iterations is followed by a further
\* iteration, that is by another scoring pass of the loop.
C5_RejectionContinuesLoop ==
    [][(fixer_calls' = fixer_calls + 1 /\ last_event' = "rejected"
          /\ iteration < max_iterations)
       => pc' = "score"]_vars

C9_WrappersNeverRaise ==
    entry \in {"anthropic", "agent"} =>
        /\ pc # "raised"
        /\ pc = "done" =>
              /\ Len(result) = 1
              /\ result[1].len >= 0
              /\ last_event = "escaped" => result[1] = text
              /\ last_event = "escaped_agent" =>
                    result[1] = IF text.len = 0 THEN Placeholder
                                ELSE [text EXCEPT !.len = text.len - text.pad,
                                                  !.pad = 0]

C9_Witness ==
    /\ entry = "agent"
    /\ pc = "done"
    /\ last_event = "escaped_agent"
    /\ critic_calls > 1
    /\ result[1] # text

---------------------------------------------------------------------------
(* Properties of the scorers *)

\* C7: when the critic call fails (no API key, exception, status other than
\* 200, unreadable reply) or the local fallback scorer is used, the report's
\* score is below 7.0, and a run whose target is at least 7.0 does not return
\* a score that reaches its target from such a pass.
C7_FailedScoringBelowThreshold ==
    scorer_path \in {"failed", "local"} =>
        /\ report.score < 70
        /\ ~report.is_valid
        /\ (pc \in {"ret", "rlhf_ret"} /\ target_score >= 70)
              => result[2] < target_score

C7_Witness ==
    /\ pc = "ret"
    /\ scorer_path = "failed"
    /\ api_key
    /\ last_event = "final"
    /\ iteration = 2
    /\ target_score = 85
    /\ current_score = 50

\* C8: when the critic is unreachable and the scored text has fewer words than
\* the minimum of its content type, the fallback report has an issue that
\* reports insufficient length.
C8_LengthIssueReported ==
    (scorer_path \in {"failed", "local"} /\ scored_text.words < MinWords)
        => "too_short" \in Range(report.issues)


---------------------------------------------------------------------------
(* Properties of parse_validation_response *)

RECURSIVE Pow10(_)
Pow10(k) == IF k = 0 THEN 1 ELSE 10 * Pow10(k - 1)

\* a number within [0, 10]
WithinScale(v) == v.t = "num" /\ 0 <= v.n /\ v.n <= 10 * Pow10(v.k)

\* C10: for every input string the report that parse_validation_response
\* returns contains a score, and that score lies within [0, 10], also when
\* the object of the reply gives a score outside that range or no score.
C10_ScorePresentAndInRange ==
    parse_pc = "ret" =>
        /\ Key("score") \in DOMAIN parsed.fields
        /\ WithinScale(parsed.fields[Key("score")])

\* the fields of a report that hold collections
CollectionFields ==
    {Key("issues"), Key("suggestions"), Key("blocking_issues"),
     Key("section_patches"), Key("inline_fixes")}

\* C11: for every input string the returned report has issues, suggestions,
\* blocking_issues, section_patches and inline_fixes, each present and a
\* collection (never missing, never null), also when the object of the reply
\* omits a field or sets it to null and when the default report is returned.
C11_CollectionsPresent ==
    parse_pc = "ret" =>
        \A k \in CollectionFields :
            /\ k \in DOMAIN parsed.fields
            /\ parsed.fields[k].t = "arr"

\* C12: parse_validation_response returns a report and never raises, for
\* every input string: empty input, input without braces, a candidate that is
\* valid JSON but not an object, input that stays unparsable after repair.
C12_NeverRaises == parse_pc # "raised"

\* C13: when the candidate block fails the strict parse and the one parse
\* after repair, parse_validation_response returns the default report:
\* score 5.0 and exactly one issue, the one that tells the parse failure.
C13_DefaultReportOnDoubleFailure ==
    (/\ parse_pc # "call"
     /\ ~json_loads(candidate).ok
     /\ \A repaired \in {Repair(candidate)} : ~json_loads(repaired).ok)
        => /\ parse_pc = "ret"
           /\ {Key("score"), Key("issues")} \subseteq DOMAIN parsed.fields
           /\ parsed.fields[Key("score")] = Num(5, 0)
           /\ parsed.fields[Key("issues")] = Arr(<<ParseFailureIssue>>)

\* a block with a comma left before the closing brace fails both parses
C13_Witness ==
    /\ parse_pc = "ret"
    /\ content = Braced(Pair("score", <<"8">>) \o <<",">>)
    /\ candidate = content
    /\ ~json_loads(candidate).ok
    /\ parsed = DefaultData

\* the replies of C14: one object with a comma score and an empty issues
\* list, with prose, a fence or white space around it
CommaReplyOf(d) == { p \o CommaBody(d) \o s : p \in Prefixes, s \in Suffixes }

\* C14: a reply that wraps one object in prose and writes the score with a
\* comma for the point (9,2 with an empty issues list) is parsed to that
\* decimal score (9.2) and to the object's own issues list (no issue), not
\* to the default report.
C14_CommaDecimalParsed ==
    \A d \in CommaScores :
        (parse_pc # "call" /\ content \in CommaReplyOf(d))
            => /\ parse_pc = "ret"
               /\ {Key("score"), Key("issues")} \subseteq DOMAIN parsed.fields
               /\ parsed.fields[Key("score")]
                     = Num(Natural(d[1] \o d[2]), Len(d[2]))
               /\ parsed.fields[Key("issues")] = Arr(<<>>)
               /\ parsed # DefaultData

C14_Witness ==
    /\ parse_pc = "ret"
    /\ content = <<"x", " ">> \o CommaBody(<<(<<"9">>), (<<"2">>)>>)
                   \o <<" ", "x">>
    /\ parse_path = "repaired"
    /\ parsed.fields[Key("score")] = Num(92, 1)

---------------------------------------------------------------------------
(* Range of the scores of validate_and_score *)

\* C15: every report returned by validate_and_score has a score within
\* [0, 10] whatever number the critic replies, so that iterative_refinement
\* only converges on a score within [0, 10].
C15_ScoreWithinRange ==
    /\ scorer_path \in {"ok", "failed"} => report.score \in 0..100
    /\ (entry = "refine" /\ last_event = "converged") => result[2] \in 0..100

---------------------------------------------------------------------------
(* Properties of apply_validator_patches *)

\* a call has returned; the text it was given
Applied == patch_prev # <<>> /\ patch_pc = "call"
GivenText == patch_prev[Len(patch_prev)]

\* C16: applying an empty patch set returns the text unchanged: for every
\* text and every report with no inline fixes and no section patches (the
\* fields absent or empty lists), the text returned is the text given.
C16_EmptyPatchSetKeepsText ==
    (/\ patch_prev # <<>>
     /\ patch_report.inline_fixes \in NoList
     /\ patch_report.section_patches \in NoList)
        => /\ patch_pc = "call"
           /\ patch_text = GivenText

C16_Witness ==
    /\ Applied
    /\ patch_report = [inline_fixes |-> Absent, section_patches |-> Given(<<>>)]
    /\ GivenText = <<" ", "A", " ", "\n", " ", "a", "\n", "b", " ", "\n">>
    /\ patch_text = GivenText

\* the report holds one section patch with the action a, a title and a
\* content that are not empty, and no inline fix
OnePatch(a) ==
    /\ patch_report.inline_fixes \in NoList
    /\ patch_report.section_patches.k = "value"
    /\ Len(patch_report.section_patches.v) = 1
    /\ \E p \in {patch_report.section_patches.v[1]} :
          /\ lower(strip(GetOr(p.action, <<"append">>), Whitespace)) = <<a>>
          /\ strip(GetOr(p.title, <<>>), Whitespace) # <<>>
          /\ strip(GetOr(p.content, <<>>), Whitespace) # <<>>

ThePatch == patch_report.section_patches.v[1]
TheTitle == strip(GetOr(ThePatch.title, <<>>), Whitespace)
TheContent == strip(GetOr(ThePatch.content, <<>>), Whitespace)

\* C17: replace is idempotent: for every text and every section patch with
\* the action replace and a title and a content that are not empty, applying
\* the patch twice gives the text that applying it once gives, whether or
\* not the section is in the text.
C17_ReplaceIdempotent ==
    (Len(patch_prev) = 2 /\ OnePatch("replace")) => patch_text = patch_prev[2]

\* the words of a text, without its white space
IsWord(c) == c \notin Whitespace
Words(t) == SelectSeq(t, IsWord)

\* a heading line: a heading word at the margin, alone on its line
HeadingWords == {"A", "B", "Z"}
HeadingLineAt(t, p) ==
    /\ LineStart(t, p)
    /\ p <= Len(t)
    /\ t[p] \in HeadingWords
    /\ LineEnd(t, p + 1)

\* the end of the section whose heading line is at p: the next heading
\* line, or the end of the text
NextHeading(t, p) ==
    LET later == {q \in (p + 1)..Len(t) : HeadingLineAt(t, q)}
    IN IF later = {} THEN Len(t) + 1
       ELSE CHOOSE q \in later : \A r \in later : q <= r

\* the heading line of the section the patch names, in the text given to
\* the first call, or 0
NamedHeading ==
    LET at == {p \in DOMAIN patch_prev[1] :
                 HeadingLineAt(patch_prev[1], p)
                    /\ <<patch_prev[1][p]>> = TheTitle}
    IN IF at = {} THEN 0 ELSE CHOOSE p \in at : \A r \in at : p <= r

\* C18: an append patch whose title matches a section of the text places
\* the new content after the end of the body of that section and before
\* the section that follows, a blank line between the body and the content.
C18_AppendAfterBody ==
    (Len(patch_prev) = 1 /\ OnePatch("append") /\ NamedHeading > 0)
        => \E i \in 3..Len(patch_text) :
              /\ StartsWith(patch_text, i, TheContent)
              /\ patch_text[i - 1] = "\n"
              /\ patch_text[i - 2] = "\n"
              /\ Words(SubSeq(patch_text, 1, i - 1))
                    = Words(SubSeq(patch_prev[1], 1,
                                   NextHeading(patch_prev[1],
                                               NamedHeading) - 1))
              /\ Words(SubSeq(patch_text, i + Len(TheContent),
                              Len(patch_text)))
                    = Words(SubSeq(patch_prev[1],
                                   NextHeading(patch_prev[1], NamedHeading),
                                   Len(patch_prev[1])))

\* C19: append is not destructive: after an append patch on a section of
\* the text, the whole text given is kept word for word and in its order;
\* the text returned is the text given with only the new content and its
\* blank-line separator added.
C19_AppendKeepsText ==
    (Len(patch_prev) = 1 /\ OnePatch("append") /\ NamedHeading > 0)
        => \E k \in 0..Len(patch_prev[1]) :
              \E rest \in {Len(patch_prev[1]) - k} :
                 /\ Len(patch_text) >= Len(patch_prev[1])
                 /\ SubSeq(patch_text, 1, k) = SubSeq(patch_prev[1], 1, k)
                 /\ SubSeq(patch_text, Len(patch_text) - rest + 1,
                           Len(patch_text))
                       = SubSeq(patch_prev[1], k + 1, Len(patch_prev[1]))
                 /\ Words(SubSeq(patch_text, k + 1, Len(patch_text) - rest))
                       = Words(TheContent)

\* a section patch with a title and a content that are not empty
WellFormed(p) ==
    /\ strip(GetOr(p.title, <<>>), Whitespace) # <<>>
    /\ strip(GetOr(p.content, <<>>), Whitespace) # <<>>

\* the report has no inline fix and a list of section patches, one of
\* them at least without a title or without a content
HasMalformedPatch ==
    /\ patch_report.inline_fixes \in NoList
    /\ patch_report.section_patches.k = "value"
    /\ \E i \in DOMAIN patch_report.section_patches.v :
          ~WellFormed(patch_report.section_patches.v[i])

\* C20: apply_validator_patches does not raise on a malformed patch: a
\* section patch whose title or content is missing or empty leaves the text
\* as it was before that patch, and the other patches of the report are
\* applied: the text returned is the text that the well-formed patches
\* alone give, the text given when there is none.
C20_MalformedPatchSkipped ==
    (patch_prev # <<>> /\ HasMalformedPatch)
        => /\ patch_pc = "call"
           /\ patch_text
                 = ApplySectionPatches(
                       GivenText,
                       SelectSeq(patch_report.section_patches.v, WellFormed))
           /\ (\A i \in DOMAIN patch_report.section_patches.v :
                  ~WellFormed(patch_report.section_patches.v[i]))
                 => patch_text = GivenText

\* a malformed patch was skipped and the patch after it changed the text
C20_Witness ==
    /\ Len(patch_prev) = 1
    /\ patch_pc = "call"
    /\ HasMalformedPatch
    /\ Len(patch_report.section_patches.v) = 2
    /\ ~WellFormed(patch_report.section_patches.v[1])
    /\ WellFormed(patch_report.section_patches.v[2])
    /\ patch_text # GivenText

\* the report has one inline fix and no section patch
OneFix ==
    /\ patch_report.section_patches \in NoList
    /\ patch_report.inline_fixes.k = "value"
    /\ Len(patch_report.inline_fixes.v) = 1
TheFind == GetOr(patch_report.inline_fixes.v[1].find, <<>>)
TheReplace == GetOr(patch_report.inline_fixes.v[1].replace, <<>>)

\* C21: an inline fix whose find is not empty and occurs in the text is
\* applied as the literal replacement of find by replace, whatever replace
\* is; an inline fix whose find is empty or does not occur in the text
\* leaves the text as it is, and the call does not raise.
C21_InlineFixApplied ==
    (patch_prev # <<>> /\ OneFix)
        => /\ patch_pc = "call"
           /\ patch_text
                 = IF TheFind # <<>> /\ Occurs(GivenText, TheFind)
                   THEN ReplaceAll(GivenText, TheFind, TheReplace, 1)
                   ELSE GivenText

---------------------------------------------------------------------------
(* Properties of RLHFFeedbackSystem.iterative_improvement *)

\* C22: in iterative_improvement the best score never decreases from one
\* iteration to the next, and best_text changes only in an iteration whose
\* score is strictly greater than the best score before it; it then becomes
\* the text just scored.
C22_BestScoreMonotone ==
    [][(entry = "rlhf" /\ pc # "start")
       => /\ best_score' >= best_score
          /\ (best_text' # best_text \/ best_score' # best_score)
                => /\ pc = "rlhf_score"
                   /\ current_score' > best_score
                   /\ best_score' = current_score'
                   /\ best_text' = current_text]_vars

\* a third pass scored lower than the best and left the best result, which
\* the second pass had set, as it was
C22_Witness ==
    /\ entry = "rlhf"
    /\ history_len = 3
    /\ current_score < best_score
    /\ best_text # text
    /\ best_text # current_text

---------------------------------------------------------------------------
(* Properties of determine_editing_mode *)

\* C23: determine_editing_mode(iteration, s, prev, similarity) returns hard
\* exactly when one at least of these holds: iteration >= 2 and
\* s - prev < 0.5; similarity > 0.95; iteration >= 3 and s < 7.0.  Otherwise
\* it returns soft.  This holds for every iteration >= 1, all scores s and
\* prev within [0, 10] and every similarity within [0, 1].
C23_HardExactlyWhenStalled ==
    editing_mode # "none" =>
        (editing_mode = "hard"
            <=> \/ (iteration >= 2 /\ current_score - prev_score < 5)
                \/ similarity > 95
                \/ (iteration >= 3 /\ current_score < 70))

---------------------------------------------------------------------------
(* Properties of concurrent calls of iterative_refinement *)

\* what the call with the arguments and replies a returns when it runs
\* alone, from the loop test with i iterations made and the text cur
RECURSIVE AloneFrom(_, _, _)
AloneFrom(a, i, cur) ==
    IF i < a.max_iterations
    THEN Only({
           IF s >= a.target_score THEN <<cur, s>>
           ELSE Only({
                  IF Usable(imp) /\ ~TooShort(imp, cur)
                  THEN AloneFrom(a, i + 1, imp)
                  ELSE <<cur, validate_and_score(
                                  api_key, cur, a.critic_replies[i + 2]).score>>
                  : imp \in {fix_text_with_claude(api_key, cur,
                                                  a.fixer_replies[i + 1])} })
           : s \in {validate_and_score(api_key, cur,
                                       a.critic_replies[i + 1]).score} })
    ELSE <<cur, validate_and_score(api_key, cur,
                                   a.critic_replies[i + 1]).score>>

\* C24: two runs of iterative_refinement on one ClaudeValidatorAgent,
\* interleaved at any of their suspension points (critic call, fixer call,
\* update callback), do not interfere: each run returns the text and the
\* score it returns when it runs alone with the same replies of the critic
\* and of the fixer, and a step of one run changes nothing of the other run.
C24_RunsDoNotInterfere ==
    /\ [](entry = "pair" =>
            \A r \in RunIds :
               runs[r].pc = "ret"
                  => runs[r].result = AloneFrom(runs[r], 0, runs[r].text))
    /\ [][entry = "pair" =>
            \A r \in RunIds :
               (runs'[r] # runs[r])
                  => \A q \in RunIds \ {r} :
                        runs'[q] = runs[q] /\ frames'[q] = frames[q]]_vars

\* both runs have returned, run 1 after two accepted fixes and run 2 at its
\* first pass, and run 2 returned while run 1 was between its calls
C24_Witness ==
    /\ entry = "pair"
    /\ runs[1].pc = "ret"
    /\ runs[2].pc = "ret"
    /\ runs[1].fixer_calls = 2
    /\ runs[1].result[1] # runs[1].text
    /\ runs[2].result[1] # runs[2].text
    /\ runs[1].result[2] # runs[2].result[2]

\* the list of a report field, empty when the field is absent
ListOf(x) == IF x.k = "value" THEN x.v ELSE <<>>

\* C25: within one call of apply_validator_patches all the inline fixes are
\* applied before any section patch, and the section patches are applied one
\* after the other in the order of the list, each to the text the one before
\* left; so an inline fix does not alter the content a section patch of the
\* same report brings in.
C25_FixesBeforePatches ==
    (patch_prev # <<>> /\ patch_pc = "call")
        => \A fixes \in {ListOf(patch_report.inline_fixes)},
              ps \in {ListOf(patch_report.section_patches)} :
              /\ (Len(ps) = 1)
                    => patch_text
                          = ApplySectionPatch(
                                ApplyInlineFixes(GivenText, fixes), ps[1])
              /\ (Len(ps) = 2 /\ fixes = <<>>)
                    => patch_text
                          = ApplySectionPatch(
                                ApplySectionPatch(GivenText, ps[1]), ps[2])
              /\ (Len(ps) = 1 /\ WellFormed(ps[1]))
                    => Occurs(patch_text,
                              strip(GetOr(ps[1].content, <<>>), Whitespace))

\* the second call of a report whose inline fix finds the content of its
\* section patch: the fix rewrote the content the first call had brought in,
\* and left alone the content the second call brought in
C25_Witness ==
    /\ Len(patch_prev) = 2
    /\ patch_pc = "call"
    /\ patch_report.inline_fixes.k = "value"
    /\ Len(patch_report.inline_fixes.v) = 1
    /\ patch_report.inline_fixes.v[1].find = Given(<<"new">>)
    /\ patch_report.inline_fixes.v[1].replace = Given(<<"b">>)
    /\ patch_report.section_patches.k = "value"
    /\ Len(patch_report.section_patches.v) = 1
    /\ Occurs(GivenText, <<"new">>)
    /\ Occurs(patch_text, <<"new">>)
    /\ Occurs(patch_text, <<"b">>)
    /\ ~Occurs(patch_prev[1], <<"b">>)

\* the end of the line that position p is on: the position of its newline,
\* or the position after the text
EndOfLine(t, p) ==
    CHOOSE q \in p..(Len(t) + 1) :
        LineEnd(t, q) /\ \A r \in p..(q - 1) : ~LineEnd(t, r)

\* the start of the first line of the text given to the first call that
\* holds the title alone, or 0
TitleLine ==
    LET at == {p \in DOMAIN patch_prev[1] :
                 /\ LineStart(patch_prev[1], p)
                 /\ strip(SubSeq(patch_prev[1], p,
                                 EndOfLine(patch_prev[1], p) - 1),
                          Whitespace) = TheTitle}
    IN IF at = {} THEN 0 ELSE CHOOSE p \in at : \A r \in at : p <= r

\* the position after the section that starts at TitleLine: the start of the
\* next line that is not indented, or the position after the text
AfterSection ==
    SectionEnd(patch_prev[1], EndOfLine(patch_prev[1], TitleLine) + 1)

\* C26: a replace or insert patch on a section of the text changes that
\* section only, the heading line that holds the title and its body up to
\* the next line that is not indented or the end of the text: the text
\* before the heading line, blank lines included, and the text from the next
\* section on are as they were, one patch rewriting one occurrence.
C26_OnlySectionRewritten ==
    (/\ Len(patch_prev) = 1
     /\ (OnePatch("replace") \/ OnePatch("insert"))
     /\ TitleLine > 0)
        => \E rest \in {Len(patch_prev[1]) - AfterSection + 1} :
              /\ Len(patch_text) >= TitleLine - 1 + rest
              /\ SubSeq(patch_text, 1, TitleLine - 1)
                    = SubSeq(patch_prev[1], 1, TitleLine - 1)
              /\ SubSeq(patch_text, Len(patch_text) - rest + 1,
                        Len(patch_text))
                    = SubSeq(patch_prev[1], AfterSection,
                             Len(patch_prev[1]))

---------------------------------------------------------------------------
(* Further properties of iterative_refinement *)

\* C27: the score iterative_refinement returns is the score that the last
\* scoring call of the run gave for the very text returned: on each return
\* path the run returns in the step in which that call ends, and no edit is
\* made to the text after it.
C27_ScoreIsOfReturnedText ==
    /\ [](Returned =>
            /\ result = <<scored_text, report.score>>
            /\ result[1] = current_text)
    /\ [][(entry = "refine" /\ pc # "ret" /\ pc' = "ret")
          => /\ critic_calls' = critic_calls + 1
             /\ scored_text' = current_text
             /\ current_text' = current_text]_vars

\* a run that returned from its final pass after two fixes were accepted,
\* with a score other than the one of its last pass of the loop
C27_Witness ==
    /\ Returned
    /\ last_event = "final"
    /\ fixer_calls = 2
    /\ result[1] # text
    /\ result[1] = improved_text
    /\ result[2] # current_score

\* C28: in iterative_improvement, when the generation function raises in an
\* iteration, the failure stays within that iteration: the run falls back to
\* the fixer, or to the local fix, goes on with the next scoring pass and in
\* the end returns a text, a score and a history; no exception leaves the
\* run, whether the Claude validator is enabled or not.
C28_GenerationFailureConfined ==
    /\ [][(entry = "rlhf" /\ pc = "rlhf_gen" /\ last_event' # "regenerated")
          => (pc' = "rlhf_score" /\ iteration' = iteration + 1)]_vars
    /\ [](entry = "rlhf" => pc # "raised")
    /\ []((entry = "rlhf" /\ pc = "rlhf_ret") => Len(result) = 3)

\* C29: in every run of iterative_refinement each iteration of the loop
\* makes one critic call and then at most one fixer call; the whole run
\* makes at most max_iterations + 1 critic calls (the passes of the loop and
\* the final pass) and at most max_iterations fixer calls, whatever the
\* outcomes of the calls; and the run ends.
C29_CallsBoundedAndRunEnds ==
    /\ [](/\ critic_calls <= max_iterations + 1
          /\ fixer_calls <= max_iterations
          /\ (pc = "score" => (critic_calls = iteration - 1
                                 /\ fixer_calls = iteration - 1))
          /\ (pc = "fix" => (critic_calls = iteration
                               /\ fixer_calls = iteration - 1)))
    /\ [][(fixer_calls' # fixer_calls)
          => (/\ pc = "fix"
              /\ fixer_calls' = fixer_calls + 1
              /\ critic_calls' = critic_calls
              /\ fixer_calls' <= iteration)]_vars
    /\ [][(critic_calls' # critic_calls)
          => (/\ pc \in {"score", "final"}
              /\ critic_calls' = critic_calls + 1
              /\ fixer_calls' = fixer_calls)]_vars
    /\ <>(pc \in {"ret", "raised"})

\* a run of two iterations that ended after its final pass, the second
\* fixer call having failed
C29_Witness ==
    /\ entry = "refine"
    /\ pc = "ret"
    /\ last_event = "final"
    /\ max_iterations = 2
    /\ iteration = 2
    /\ critic_calls = 3
    /\ fixer_calls = 2
    /\ fix_failed

---------------------------------------------------------------------------
(* Further properties of parse_validation_response *)

\* the replies made of one valid JSON object between two stretches of prose
\* without braces: the objects b such that content is such a reply around b
ObjectsOf(reply) ==
    { b \in ObjectBodies \cup CommaBodies \cup BrokenBodies :
        /\ \E p \in Prefixes, s \in Suffixes : reply = p \o b \o s
        /\ json_loads(b).ok
        /\ json_loads(b).val.t = "obj" }

\* C30: a reply of the critic that holds one valid JSON object, with prose
\* without braces around it or not, is parsed to the values of the fields of
\* that object, neither the repair nor the default report being used, also
\* when a string of the object holds an opening or a closing brace: counting
\* the depth of the braces does not cut a valid object short.
C30_ValidObjectParsedWhole ==
    parse_pc # "call" =>
        \A b \in ObjectsOf(content) :
            /\ parse_pc = "ret"
            /\ candidate = b
            /\ parse_path = "first"
            /\ \A k \in DOMAIN json_loads(b).val.fields :
                  /\ k \in DOMAIN parsed.fields
                  /\ k \notin _NUMBER_FIELDS
                        => parsed.fields[k] = json_loads(b).val.fields[k]

====
